---- MODULE Spec2Model ----
(***************************************************************************)
(* Authentication / session-security core of the storefront:               *)
(*   - Token Codec, Session Issuer, Revocation Store and Request Gate      *)
(*     (backend/routes/auth.js, backend/middleware/auth.js)                *)
(*   - Refresh Coordinator of the client (context/AuthContext.jsx)         *)
(* Server behaviour is specified by Spec, the client coordinator by        *)
(* ClientSpec.  Time is kept as whole seconds (now) plus the millisecond   *)
(* part (frac), because the code mixes Date.now() in ms with JWT claims    *)
(* in seconds.                                                             *)
(***************************************************************************)
EXTENDS Integers, Sequences, FiniteSets, TLC

VARIABLES
  now,            \* Math.floor(Date.now() / 1000)
  frac,           \* Date.now() % 1000
  ticks,          \* number of clock advances taken so far
  users,          \* the user-record store (User collection)
  redisAvailable, \* module flag redisAvailable of middleware/auth.js
  blacklist,      \* redis keys jwt-blacklist:<hash> with their PX expiry
  issued,         \* token pairs returned to callers so far
  loggedOut,      \* sessions for which logout has been requested
  revoked,        \* tokens that were passed to addToBlacklist
  track,          \* whether the two histories above are being recorded
  jwtSecret,        \* process.env.JWT_SECRET
  jwtRefreshSecret, \* process.env.JWT_REFRESH_SECRET
  \* the client (AuthProvider)
  isRefreshing,   \* isRefreshing.current
  failedQueue,    \* failedQueue.current: the requests waiting for the refresh
  req,            \* the axios requests and where each one stands
  stored,         \* whether a refresh token is in the browser storage
  isAuthenticated,\* state.isAuthenticated
  inflight,       \* POST /api/auth/refresh calls that have not settled
  calls,          \* POST /api/auth/refresh calls issued so far
  settles,        \* of these, the ones that have settled
  logouts,        \* logout() calls waiting for POST /api/auth/logout
  settled,        \* how the refresh call that settled last ended
  notified,       \* toast.error('Session expired...') shown since that call began
  \* Google logins for one e-mail address
  accounts,       \* the committed User documents with that e-mail (their _id)
  oauth,          \* where each login stands and what its variable user holds
  \* refresh requests that are handled at the same time
  racing,         \* where each one stands, the document it read, its response
  writes,         \* how many of them have saved the user document
  \* the in-memory blacklist (class MemoryBlacklist)
  memNow,         \* Date.now() as the blacklist sees it
  memTokens,      \* this.tokens: token hash -> expiresAt
  memAdded,       \* for each token the expiresAt of the last add(token, ttl)
  \* the browser storage of the client
  localStorage,   \* marketsphereToken, -RefreshToken, -RememberMe
  sessionStorage, \* marketsphereToken, -RefreshToken
  authHeader,     \* axios.defaults.headers.common['Authorization']
  lastCall,       \* the last call of setAuthTokens or clearAllTokens
  logoutPc,       \* where logout() stands
  \* password resets
  mailed          \* the reset tokens sent out by POST /forgot-password

envVars == <<jwtSecret, jwtRefreshSecret>>

srvVars == <<now, frac, ticks, users, redisAvailable, blacklist,
             issued, loggedOut, revoked, track, envVars>>

cliVars == <<isRefreshing, failedQueue, req, stored, isAuthenticated,
             inflight, calls, settles, logouts, settled, notified>>

oauthVars == <<accounts, oauth>>

raceVars == <<racing, writes>>

memVars == <<memNow, memTokens, memAdded>>

storeVars == <<localStorage, sessionStorage, authHeader, lastCall, logoutPc>>

resetVars == <<mailed>>

auxVars == <<memVars, storeVars, resetVars>>

vars == <<srvVars, cliVars, oauthVars, raceVars, auxVars>>

-----------------------------------------------------------------------------
(* Bounds of the model *)

NLogins == 2
NRacers == 2
NReq == 3
MaxSends == 3

MaxTicks == 1
MaxIssued == 2
\* token pairs handed out while the gate is examined
MaxGatePairs == 1
\* how far the clock of the in-memory blacklist runs
MaxMemNow == 4

(* Program constants *)

AccessShort == 900
AccessLong == 604800
RefreshShort == 604800
RefreshLong == 2592000
ResetTtl == 3600
MsPerSec == 1000
DefaultBlacklistMs == 300000
OtpTtlMs == 600000

\* Handlers read and write only the record of the account a request names
\* (token.sub, the e-mail), so one account is followed.
Users == {1}

\* the clock advances by half a second, or by half a second less than the
\* lifetime of a short refresh token (which is that of a long access token)
Jumps == { <<0, MsPerSec \div 2>>,
           <<RefreshShort - 1, MsPerSec \div 2>> }

-----------------------------------------------------------------------------
(* Token Codec.  A token string is determined by its header and payload    *)
(* and the secret that signed it (HS256 is deterministic), so a token is   *)
(* modelled as the record of exactly these: key is the secret that signed  *)
(* it, iss whether issuer and audience are stamped, fp the fingerprint     *)
(* claim (NoFp when the payload has no fp).                                *)

\* decoded.fp of a payload without an fp claim: undefined, which is the
\* digest of no context
NoFp == <<"undefined">>

NoToken == [sub |-> 0, typ |-> "none", iat |-> 0, exp |-> 0,
            key |-> "none", iss |-> FALSE, fp |-> NoFp]

\* a string that is not a JWT: jwt.decode gives null, jwt.verify throws
Malformed == [sub |-> 0, typ |-> "malformed", iat |-> 0, exp |-> 0,
              key |-> "none", iss |-> FALSE, fp |-> NoFp]

\* expiresIn: the span reported next to the tokens ("none": not reported)
NoPair == [accessToken |-> NoToken, refreshToken |-> NoToken,
           expiresIn |-> "none"]

\* a time span as jsonwebtoken reads it (ms('15m') / 1000), in seconds
Seconds(span) ==
  CASE span = "15m" -> 15 * 60
    [] span = "7d" -> 7 * 24 * 60 * 60
    [] span = "30d" -> 30 * 24 * 60 * 60
    [] OTHER -> 0

\* tokens: { accessToken, refreshToken, expiresIn: remember ? '7d' : '15m' }
withExpiresIn(p, remember) ==
  [accessToken |-> p.accessToken, refreshToken |-> p.refreshToken,
   expiresIn |-> IF remember THEN "7d" ELSE "15m"]

generateAccessToken(userId, remember, t) ==
  [sub |-> userId, typ |-> "access", iat |-> t,
   exp |-> t + (IF remember THEN AccessLong ELSE AccessShort),
   key |-> jwtSecret, iss |-> TRUE, fp |-> NoFp]

generateRefreshToken(userId, remember, t) ==
  [sub |-> userId, typ |-> "refresh", iat |-> t,
   exp |-> t + (IF remember THEN RefreshLong ELSE RefreshShort),
   key |-> jwtRefreshSecret, iss |-> TRUE, fp |-> NoFp]

generateTokensShortOnly(userId, remember, t) ==
  [accessToken |-> generateAccessToken(userId, FALSE, t),
   refreshToken |-> generateRefreshToken(userId, FALSE, t),
   expiresIn |-> "none"]

generateTokens(userId, remember, t) ==
  [accessToken |-> generateAccessToken(userId, remember, t),
   refreshToken |-> generateRefreshToken(userId, remember, t)]

\* the reset token of POST /forgot-password: { id } signed with JWT_SECRET
\* for one hour, with issuer and audience and without a type
generateResetToken(userId, t) ==
  [sub |-> userId, typ |-> "untyped", iat |-> t, exp |-> t + ResetTtl,
   key |-> jwtSecret, iss |-> TRUE, fp |-> NoFp]

\* jwt.verify(token, secret, {issuer, audience}) at second t
jwtVerify(token, key, t) ==
  IF token.typ \in {"none", "malformed"} THEN "JsonWebTokenError"
  ELSE IF token.key # key THEN "JsonWebTokenError"
  ELSE IF t >= token.exp THEN "TokenExpiredError"
  ELSE IF ~token.iss THEN "JsonWebTokenError"
  ELSE "ok"

verifyToken(token, isRefresh, t) ==
  jwtVerify(token, IF isRefresh THEN jwtRefreshSecret ELSE jwtSecret, t)

\* jwt.verify(token, secret) without options at second t
jwtVerifyBare(token, key, t) ==
  IF token.typ \in {"none", "malformed"} THEN "JsonWebTokenError"
  ELSE IF token.key # key THEN "JsonWebTokenError"
  ELSE IF t >= token.exp THEN "TokenExpiredError"
  ELSE "ok"

-----------------------------------------------------------------------------
(* Fingerprint Generator and the fingerprinted tokens of auth-enhanced.js   *)

\* req.ip, user-agent and accept-language of a request ("": header absent)
Contexts ==
  { [ip |-> "10.0.0.1", ua |-> "agentA", lang |-> "en"],
    [ip |-> "10.0.0.1", ua |-> "agentA", lang |-> ""] }

\* every component kept, a missing one as the word "unknown"
generateRequestFingerprintPadded(ctx) ==
  <<IF ctx.ip = "" THEN "unknown" ELSE ctx.ip,
    IF ctx.ua = "" THEN "unknown" ELSE ctx.ua,
    IF ctx.lang = "" THEN "unknown" ELSE ctx.lang>>

\* the components that are set, joined; sha256 is taken as injective
generateRequestFingerprint(ctx) ==
  SelectSeq(<<ctx.ip, ctx.ua, ctx.lang>>, LAMBDA c : c # "")

generateSecureTokens(userId, remember, fingerprint, t) ==
  [accessToken |->
     [sub |-> userId, typ |-> "access", iat |-> t,
      exp |-> t + Seconds(IF remember THEN "7d" ELSE "15m"),
      key |-> jwtSecret, iss |-> FALSE, fp |-> fingerprint],
   refreshToken |->
     [sub |-> userId, typ |-> "refresh", iat |-> t,
      exp |-> t + Seconds(IF remember THEN "30d" ELSE "7d"),
      key |-> jwtRefreshSecret, iss |-> FALSE, fp |-> fingerprint],
   expiresIn |-> "none"]

\* "ok", or the name or message of what it throws
verifyTokenWithFingerprint(token, fingerprint, isRefresh, t) ==
  LET v == jwtVerifyBare(token,
                         IF isRefresh THEN jwtRefreshSecret ELSE jwtSecret, t)
  IN IF v # "ok" THEN v
     ELSE IF token.fp # fingerprint THEN "Token fingerprint mismatch"
     ELSE "ok"

\* the accessToken, refreshToken and rememberMe cookies; maxAge is kept in
\* seconds (the code's milliseconds without the factor 1000, which 30 days
\* exceed in 32-bit integers)
setAuthCookies(p, remember) ==
  [accessToken |-> p.accessToken, refreshToken |-> p.refreshToken,
   accessTokenMaxAge |-> IF remember THEN 7 * 24 * 60 * 60
                         ELSE 15 * 60,
   refreshTokenMaxAge |-> IF remember THEN 30 * 24 * 60 * 60
                          ELSE 7 * 24 * 60 * 60,
   rememberMe |-> remember]

NoCookies == [accessToken |-> NoToken, refreshToken |-> NoToken,
              accessTokenMaxAge |-> 0, refreshTokenMaxAge |-> 0,
              rememberMe |-> FALSE]

-----------------------------------------------------------------------------
(* Revocation Store *)

TimeGE(a, b) == a[1] > b[1] \/ (a[1] = b[1] /\ a[2] >= b[2])

AddMs(t, ms) ==
  <<t[1] + ((t[2] + ms) \div MsPerSec), (t[2] + ms) % MsPerSec>>

\* redis EXISTS: the key is there and its PX lifetime has not run out
redisExists(bl, token, t) ==
  \E e \in bl : e.tok = token /\ ~TimeGE(t, e.at)

\* redis SET key '1' PX ttl
redisSet(bl, token, t, ttl) ==
  {e \in bl : e.tok # token} \cup {[tok |-> token, at |-> AddMs(t, ttl)]}

addToBlacklist(bl, avail, token, t) ==
  IF ~avail THEN bl
  ELSE IF token.typ = "malformed" \/ token.exp = 0
    THEN redisSet(bl, token, t, DefaultBlacklistMs)
  ELSE LET remainingTimeMs == (token.exp - t[1]) * MsPerSec IN
       IF remainingTimeMs > 0 THEN redisSet(bl, token, t, remainingTimeMs)
       ELSE bl

\* the lookup answering "blacklisted" when redis cannot be asked
isTokenBlacklistedFailClosed(bl, avail, fails, token, t) ==
  IF ~avail THEN TRUE
  ELSE IF fails THEN TRUE
  ELSE redisExists(bl, token, t)

\* fails: redis.exists rejects (the catch returns false)
isTokenBlacklisted(bl, avail, fails, token, t) ==
  IF ~avail THEN FALSE
  ELSE IF fails THEN FALSE
  ELSE redisExists(bl, token, t)

-----------------------------------------------------------------------------
(* Responses *)

Reply(op, status, code, sub, pair, susp) ==
  [op |-> op, status |-> status, code |-> code, sub |-> sub,
   tokens |-> pair, suspended |-> susp]

NoTime == <<0, 0>>

NoUser == [exists |-> FALSE, isVerified |-> FALSE, isSuspended |-> FALSE,
           refreshToken |-> NoToken, otpExpires |-> NoTime, role |-> "user",
           password |-> "pw1", lastActive |-> NoTime]

\* what a handler sees of the account it is about (no record: not suspended)
Susp(us, u) == u \in Users /\ us[u].exists /\ us[u].isSuspended

-----------------------------------------------------------------------------
(* Request Gate *)

\* the gate without its isSuspended test
authNoSuspension(us, bl, avail, fails, token, t) ==
  IF token = NoToken THEN Reply("auth", 401, "NO_TOKEN", 0, NoPair, FALSE)
  ELSE IF isTokenBlacklisted(bl, avail, fails, token, t)
    THEN Reply("auth", 401, "TOKEN_INVALIDATED", 0, NoPair, Susp(us, token.sub))
  ELSE LET v == verifyToken(token, FALSE, t[1]) IN
    IF v = "TokenExpiredError"
      THEN Reply("auth", 401, "TOKEN_EXPIRED", 0, NoPair, Susp(us, token.sub))
    ELSE IF v = "JsonWebTokenError"
      THEN Reply("auth", 401, "INVALID_TOKEN", 0, NoPair, Susp(us, token.sub))
    ELSE IF token.typ # "access"
      THEN Reply("auth", 401, "INVALID_TOKEN_TYPE", 0, NoPair, Susp(us, token.sub))
    ELSE IF ~us[token.sub].exists
      THEN Reply("auth", 401, "USER_NOT_FOUND", 0, NoPair, FALSE)
    ELSE Reply("auth", 200, "OK", token.sub, NoPair, us[token.sub].isSuspended)

\* the gate without its test of decoded.type
authNoTypeCheck(us, bl, avail, fails, token, t) ==
  IF token = NoToken THEN Reply("auth", 401, "NO_TOKEN", 0, NoPair, FALSE)
  ELSE IF isTokenBlacklisted(bl, avail, fails, token, t)
    THEN Reply("auth", 401, "TOKEN_INVALIDATED", 0, NoPair, Susp(us, token.sub))
  ELSE LET v == verifyToken(token, FALSE, t[1]) IN
    IF v = "TokenExpiredError"
      THEN Reply("auth", 401, "TOKEN_EXPIRED", 0, NoPair, Susp(us, token.sub))
    ELSE IF v = "JsonWebTokenError"
      THEN Reply("auth", 401, "INVALID_TOKEN", 0, NoPair, Susp(us, token.sub))
    ELSE IF ~us[token.sub].exists
      THEN Reply("auth", 401, "USER_NOT_FOUND", 0, NoPair, FALSE)
    ELSE IF us[token.sub].isSuspended
      THEN Reply("auth", 403, "ACCOUNT_SUSPENDED", 0, NoPair, TRUE)
    ELSE Reply("auth", 200, "OK", token.sub, NoPair, FALSE)

\* the gate verifying the token before it asks the Revocation Store
authVerifyFirst(us, bl, avail, fails, token, t) ==
  IF token = NoToken THEN Reply("auth", 401, "NO_TOKEN", 0, NoPair, FALSE)
  ELSE LET v == verifyToken(token, FALSE, t[1]) IN
    IF v = "TokenExpiredError"
      THEN Reply("auth", 401, "TOKEN_EXPIRED", 0, NoPair, Susp(us, token.sub))
    ELSE IF v = "JsonWebTokenError"
      THEN Reply("auth", 401, "INVALID_TOKEN", 0, NoPair, Susp(us, token.sub))
    ELSE IF isTokenBlacklisted(bl, avail, fails, token, t)
      THEN Reply("auth", 401, "TOKEN_INVALIDATED", 0, NoPair, Susp(us, token.sub))
    ELSE IF token.typ # "access"
      THEN Reply("auth", 401, "INVALID_TOKEN_TYPE", 0, NoPair, Susp(us, token.sub))
    ELSE IF ~us[token.sub].exists
      THEN Reply("auth", 401, "USER_NOT_FOUND", 0, NoPair, FALSE)
    ELSE IF us[token.sub].isSuspended
      THEN Reply("auth", 403, "ACCOUNT_SUSPENDED", 0, NoPair, TRUE)
    ELSE Reply("auth", 200, "OK", token.sub, NoPair, FALSE)

auth(us, bl, avail, fails, token, t) ==
  IF token = NoToken THEN Reply("auth", 401, "NO_TOKEN", 0, NoPair, FALSE)
  ELSE IF isTokenBlacklisted(bl, avail, fails, token, t)
    THEN Reply("auth", 401, "TOKEN_INVALIDATED", 0, NoPair, Susp(us, token.sub))
  ELSE LET v == verifyToken(token, FALSE, t[1]) IN
    IF v = "TokenExpiredError"
      THEN Reply("auth", 401, "TOKEN_EXPIRED", 0, NoPair, Susp(us, token.sub))
    ELSE IF v = "JsonWebTokenError"
      THEN Reply("auth", 401, "INVALID_TOKEN", 0, NoPair, Susp(us, token.sub))
    ELSE IF token.typ # "access"
      THEN Reply("auth", 401, "INVALID_TOKEN_TYPE", 0, NoPair, Susp(us, token.sub))
    ELSE IF ~us[token.sub].exists
      THEN Reply("auth", 401, "USER_NOT_FOUND", 0, NoPair, FALSE)
    ELSE IF us[token.sub].isSuspended
      THEN Reply("auth", 403, "ACCOUNT_SUSPENDED", 0, NoPair, TRUE)
    ELSE Reply("auth", 200, "OK", token.sub, NoPair, FALSE)

\* what a middleware that answers nothing leaves: how often it called next,
\* and req.user (0: not set) and req.token
Passed(nexts, sub, token) ==
  [op |-> "optionalAuth", next |-> nexts, sent |-> FALSE,
   user |-> sub, token |-> token]

\* optionalAuth attaching whenever the document is found
optionalAuthAnyUser(us, bl, avail, fails, token, t) ==
  IF token = NoToken THEN Passed(1, 0, NoToken)
  ELSE IF isTokenBlacklisted(bl, avail, fails, token, t)
    THEN Passed(1, 0, NoToken)
  ELSE IF verifyToken(token, FALSE, t[1]) # "ok" THEN Passed(1, 0, NoToken)
  ELSE IF token.typ # "access" THEN Passed(1, 0, NoToken)
  ELSE IF us[token.sub].exists THEN Passed(1, token.sub, token)
  ELSE Passed(1, 0, NoToken)

optionalAuth(us, bl, avail, fails, token, t) ==
  IF token = NoToken THEN Passed(1, 0, NoToken)
  ELSE IF isTokenBlacklisted(bl, avail, fails, token, t)
    THEN Passed(1, 0, NoToken)
  \* verifyToken throws: the catch calls next
  ELSE IF verifyToken(token, FALSE, t[1]) # "ok" THEN Passed(1, 0, NoToken)
  ELSE IF token.typ # "access" THEN Passed(1, 0, NoToken)
  ELSE IF us[token.sub].exists /\ ~us[token.sub].isSuspended
    THEN Passed(1, token.sub, token)
  ELSE Passed(1, 0, NoToken)

\* the admin middleware with the role test left out
adminAnyRole(us, sub) ==
  IF sub = 0 THEN Reply("admin", 401, "NO_USER", 0, NoPair, FALSE)
  ELSE Reply("admin", 200, "OK", sub, NoPair, FALSE)

\* admin, req.user being the document of sub (0: req.user is not set);
\* status 200 stands for next()
admin(us, sub) ==
  IF sub = 0 THEN Reply("admin", 401, "NO_USER", 0, NoPair, FALSE)
  ELSE IF us[sub].role # "admin"
    THEN Reply("admin", 403, "ADMIN_REQUIRED", 0, NoPair, FALSE)
  ELSE Reply("admin", 200, "OK", sub, NoPair, FALSE)

-----------------------------------------------------------------------------
(* Session Issuer: routes/auth.js.  Each handler is an operator from the    *)
(* store and the request to the response and the store it leaves.           *)

Out(r, us) == [resp |-> r, users |-> us]

register(us, u, t) ==
  IF us[u].exists /\ us[u].isVerified
    THEN Out(Reply("register", 400, "User already exists", 0, NoPair, Susp(us, u)), us)
  ELSE Out(Reply("register", 200, "OTP sent to your email", 0, NoPair, Susp(us, u)),
           [us EXCEPT ![u].exists = TRUE,
                      ![u].otpExpires = AddMs(t, OtpTtlMs)])

\* otpOk: the submitted code equals the stored one
verifyOtp(us, u, otpOk, remember, t) ==
  IF ~(us[u].exists /\ us[u].otpExpires # NoTime /\ otpOk
       /\ ~TimeGE(t, us[u].otpExpires))
    THEN Out(Reply("verify-otp", 400, "Invalid or expired OTP", 0, NoPair, Susp(us, u)), us)
  ELSE LET p == generateTokens(u, remember, t[1]) IN
    Out(Reply("verify-otp", 200, "OK", u, withExpiresIn(p, remember), us[u].isSuspended),
        [us EXCEPT ![u].isVerified = TRUE,
                   ![u].otpExpires = NoTime,
                   ![u].refreshToken = p.refreshToken])

\* pwOk: user.correctPassword(password, user.password)
login(us, u, pwOk, remember, t) ==
  IF ~us[u].exists
    THEN Out(Reply("login", 401, "Invalid credentials", 0, NoPair, FALSE), us)
  ELSE IF ~us[u].isVerified
    THEN Out(Reply("login", 401, "Please verify your email first", 0, NoPair,
                   us[u].isSuspended), us)
  ELSE IF ~pwOk
    THEN Out(Reply("login", 401, "Invalid credentials", 0, NoPair,
                   us[u].isSuspended), us)
  ELSE LET p == generateTokens(u, remember, t[1]) IN
    Out(Reply("login", 200, "OK", u, withExpiresIn(p, remember), us[u].isSuspended),
        [us EXCEPT ![u].refreshToken = p.refreshToken])

\* POST /forgot-password for the e-mail of account u: the answer is the same
\* whether the account exists, mail is the token of the reset link
forgotPassword(us, u, t) ==
  [resp |-> Reply("forgot-password", 200,
                  "If the email exists, a reset link has been sent", 0, NoPair,
                  FALSE),
   users |-> us,
   mail |-> IF us[u].exists THEN generateResetToken(u, t[1]) ELSE NoToken]

\* POST /reset-password with { token, password }
resetPassword(us, token, password, t) ==
  LET v == jwtVerify(token, jwtSecret, t[1]) IN
  IF token = NoToken \/ password = ""
    THEN Out(Reply("reset-password", 400, "Token and password are required",
                   0, NoPair, FALSE), us)
  ELSE IF v = "TokenExpiredError"
    THEN Out(Reply("reset-password", 400, "Reset token has expired", 0,
                   NoPair, FALSE), us)
  ELSE IF v # "ok"
    THEN Out(Reply("reset-password", 400, "Invalid reset token", 0, NoPair,
                   FALSE), us)
  ELSE IF ~us[token.sub].exists
    THEN Out(Reply("reset-password", 400, "Invalid or expired reset token", 0,
                   NoPair, FALSE), us)
  ELSE Out(Reply("reset-password", 200, "Password reset successfully",
                 token.sub, NoPair, FALSE),
           [us EXCEPT ![token.sub].password = password])

\* POST /google: u is the account with the e-mail of the verified id token
googleRoute(us, u, remember, t) ==
  LET p == generateTokens(u, remember, t[1]) IN
  Out(Reply("google", 200, "OK", u, withExpiresIn(p, remember), Susp(us, u)),
      [us EXCEPT ![u].exists = TRUE,
                 ![u].isVerified = TRUE,
                 ![u].refreshToken = p.refreshToken,
                 ![u].lastActive = t])

\* POST /google for an id token whose payload has email_verified as given:
\* the route reads payload.email, name, sub and picture only
googleRouteFor(us, u, emailVerified, remember, t) ==
  googleRoute(us, u, remember, t)

\* googleLogin of the middleware; emailVerified: payload.email_verified.
\* It throws (status 0) where a route would answer.
googleLogin(us, u, emailVerified, remember, t) ==
  IF ~emailVerified
    THEN Out(Reply("googleLogin", 0, "Google email not verified", 0, NoPair,
                   Susp(us, u)), us)
  ELSE LET p == [accessToken |-> generateAccessToken(u, remember, t[1]),
                 refreshToken |-> generateRefreshToken(u, remember, t[1])] IN
    Out(Reply("googleLogin", 200, "OK", u, withExpiresIn(p, remember), Susp(us, u)),
        [us EXCEPT ![u].exists = TRUE,
                   ![u].isVerified = TRUE,
                   ![u].refreshToken = p.refreshToken,
                   ![u].lastActive = t])

\* POST /login of routes/auth-enhanced.js from a request with context ctx;
\* the tokens travel in the cookies
loginEnhanced(us, u, pwOk, remember, ctx, t) ==
  IF ~us[u].exists \/ ~pwOk
    THEN [resp |-> Reply("login-enhanced", 401, "INVALID_CREDENTIALS", 0, NoPair,
                         Susp(us, u)),
          users |-> us, cookies |-> NoCookies]
  ELSE IF us[u].isSuspended
    THEN [resp |-> Reply("login-enhanced", 403, "ACCOUNT_SUSPENDED", 0, NoPair,
                         TRUE),
          users |-> us, cookies |-> NoCookies]
  ELSE LET tokens == generateSecureTokens(u, remember,
                                          generateRequestFingerprint(ctx), t[1])
       IN [resp |-> Reply("login-enhanced", 200, "OK", u, tokens, FALSE),
           users |-> [us EXCEPT ![u].refreshToken = tokens.refreshToken],
           cookies |-> setAuthCookies(tokens, remember)]

-----------------------------------------------------------------------------
(* Refresh.  via = "route" is POST /refresh of routes/auth.js, via =        *)
(* "helper" is refreshTokens of the middleware (its thrown message is the   *)
(* code).  The part before User.findById needs no store; the part after it  *)
(* works on the document that findById returned.                            *)

refreshEarly(token, t, via) ==
  IF token = NoToken
    THEN IF via = "route" THEN "REFRESH_TOKEN_REQUIRED" ELSE "Refresh token required"
  ELSE LET v == verifyToken(token, TRUE, t[1]) IN
    IF v = "TokenExpiredError"
      THEN IF via = "route" THEN "REFRESH_TOKEN_EXPIRED" ELSE "jwt expired"
    ELSE IF v = "JsonWebTokenError"
      THEN IF via = "route" THEN "INVALID_REFRESH_TOKEN" ELSE "invalid token"
    ELSE IF token.typ # "refresh"
      THEN IF via = "route" THEN "INVALID_TOKEN_TYPE" ELSE "Invalid refresh token"
    ELSE "pass"

EarlyStatus(code) == IF code = "REFRESH_TOKEN_REQUIRED" THEN 400 ELSE 401

\* the checks on the loaded document with the comparison reduced to
\* !user.refreshToken
refreshLateAnyToken(doc, token, via) ==
  IF ~doc.exists
    THEN IF via = "route" THEN "USER_NOT_FOUND" ELSE "User not found"
  ELSE IF doc.refreshToken = NoToken
    THEN IF via = "route" THEN "REFRESH_TOKEN_MISMATCH" ELSE "Refresh token mismatch"
  ELSE IF doc.isSuspended
    THEN IF via = "route" THEN "ACCOUNT_SUSPENDED" ELSE "Account suspended"
  ELSE "pass"

\* the checks on the loaded document; "pass" when a new pair is to be minted
refreshLate(doc, token, via) ==
  IF ~doc.exists
    THEN IF via = "route" THEN "USER_NOT_FOUND" ELSE "User not found"
  ELSE IF doc.refreshToken = NoToken \/ doc.refreshToken # token
    THEN IF via = "route" THEN "REFRESH_TOKEN_MISMATCH" ELSE "Refresh token mismatch"
  ELSE IF doc.isSuspended
    THEN IF via = "route" THEN "ACCOUNT_SUSPENDED" ELSE "Account suspended"
  ELSE "pass"

LateStatus(code, via) ==
  IF via = "route" /\ code = "ACCOUNT_SUSPENDED" THEN 403 ELSE 401

IsMismatch(r) == r.code \in {"REFRESH_TOKEN_MISMATCH", "Refresh token mismatch"}

\* the rest of the handler if a token other than the stored one ended the
\* session (the stored token is unset)
refreshFinishEndsSession(us, doc, token, remember, t, via) ==
  LET c == refreshLate(doc, token, via)
      u == token.sub
      p == generateTokens(u, remember, t[1]) IN
  IF c # "pass"
    THEN Out(Reply(via, LateStatus(c, via), c, 0, NoPair, doc.isSuspended),
             IF IsMismatch([code |-> c])
               THEN [us EXCEPT ![u].refreshToken = NoToken] ELSE us)
  ELSE Out(Reply(via, 200, "OK", u, withExpiresIn(p, remember), doc.isSuspended),
           [us EXCEPT ![u].refreshToken = p.refreshToken,
                      ![u].lastActive = t])

\* the rest of the handler if the new pair kept the lifetimes of the token
\* that was presented instead of following the flag of the request
refreshFinishKeepsProfile(us, doc, token, remember, t, via) ==
  LET c == refreshLate(doc, token, via)
      u == token.sub
      kept == token.exp - token.iat = RefreshLong
      p == generateTokens(u, kept, t[1]) IN
  IF c # "pass"
    THEN Out(Reply(via, LateStatus(c, via), c, 0, NoPair, doc.isSuspended), us)
  ELSE Out(Reply(via, 200, "OK", u, withExpiresIn(p, kept), doc.isSuspended),
           [us EXCEPT ![u].refreshToken = p.refreshToken,
                      ![u].lastActive = t])

\* the rest of the handler, given the document doc read earlier
refreshFinish(us, doc, token, remember, t, via) ==
  LET c == refreshLate(doc, token, via)
      u == token.sub
      p == generateTokens(u, remember, t[1]) IN
  IF c # "pass"
    THEN Out(Reply(via, LateStatus(c, via), c, 0, NoPair, doc.isSuspended), us)
  ELSE Out(Reply(via, 200, "OK", u, withExpiresIn(p, remember), doc.isSuspended),
           [us EXCEPT ![u].refreshToken = p.refreshToken,
                      ![u].lastActive = t])

\* a refresh request handled without any other request in between
refresh(us, token, remember, t, via) ==
  LET c == refreshEarly(token, t, via) IN
  IF c # "pass"
    THEN Out(Reply(via, EarlyStatus(c), c, 0, NoPair, Susp(us, token.sub)), us)
  ELSE refreshFinish(us, us[token.sub], token, remember, t, via)

\* POST /refresh of routes/auth-enhanced.js from a request with context ctx:
\* the fingerprint is handed to refreshTokens, which takes two parameters
refreshEnhanced(us, cookie, remember, ctx, t) ==
  LET o == refresh(us, cookie, remember, t, "helper") IN
  IF cookie = NoToken
    THEN [resp |-> Reply("refresh-enhanced", 401, "MISSING_REFRESH_TOKEN", 0,
                         NoPair, FALSE),
          users |-> us, cookies |-> NoCookies]
  ELSE IF o.resp.status # 200
    THEN [resp |-> Reply("refresh-enhanced", 401, "REFRESH_FAILED", 0, NoPair,
                         o.resp.suspended),
          users |-> us, cookies |-> NoCookies]
  ELSE [resp |-> Reply("refresh-enhanced", 200, "OK", o.resp.sub,
                       o.resp.tokens, o.resp.suspended),
        users |-> o.users, cookies |-> setAuthCookies(o.resp.tokens, remember)]

\* what the verification of the gate gives for a token that comes with a
\* request of context ctx: const decoded = verifyToken(token)
authVerification(token, ctx, t) == verifyToken(token, FALSE, t)

\* the same for refreshTokens(refreshToken, remember, fingerprint)
refreshVerification(token, ctx, t) == verifyToken(token, TRUE, t)

-----------------------------------------------------------------------------
(* Logout.  Both run behind the Request Gate (router.post('/logout', auth)).*)

\* routes/auth.js: $unset refreshToken of req.user
logoutRoute(us, u) == [us EXCEPT ![u].refreshToken = NoToken]

\* logout(accessToken, refreshToken, userId) of the middleware
logout(us, bl, avail, accessToken, userId, t) ==
  [blacklist |-> IF accessToken # NoToken
                   THEN addToBlacklist(bl, avail, accessToken, t) ELSE bl,
   users |-> IF userId # 0 THEN [us EXCEPT ![userId].refreshToken = NoToken]
             ELSE us]

-----------------------------------------------------------------------------
(* Google logins that run at the same time for one e-mail address.  A step  *)
(* is what a handler does between two awaits.  A document is known by its   *)
(* _id: 0 is an account registered with a password before, l the one that   *)
(* login l creates, OtherEmail one that has the Google subject id of the    *)
(* logins but another e-mail address.                                       *)

OtherEmail == 0 - 1

Logins == 1..NLogins

\* user: the _id in the variable user (NoDoc: null); created: isNewUser
NoDoc == 0 - 2

NoLogin == [pc |-> "idle", via |-> "none", user |-> NoDoc, pending |-> FALSE,
            created |-> FALSE]

Vias == {"route", "helper"}

Racers == 1..NRacers

\* a refresh request: the token and flag it carries, the document findById
\* gave it, how many saves had landed when it read, which save was its own
\* (0: none), and its response
NoRacer == [pc |-> "idle", via |-> "none", token |-> NoToken,
            remember |-> FALSE, doc |-> NoUser, readAt |-> 0, seq |-> 0,
            got |-> Reply("none", 0, "none", 0, NoPair, FALSE)]

-----------------------------------------------------------------------------
(* The in-memory blacklist: class MemoryBlacklist.  Its clock memNow is in  *)
(* milliseconds and starts at 1.                                            *)

MemKeys == {"tokA", "tokB"}

\* this.tokens.get(tokenHash) of a hash that is not in the map
Absent == 0 - 2

\* the ttl passed to add
Ttls == {0 - 1, 0, 1}

\* add(token, ttl)
MemoryBlacklistAdd(map, token, ttl, t) == [map EXCEPT ![token] = t + ttl]

\* has(token): the answer and the map it leaves
MemoryBlacklistHas(map, token, t) ==
  LET expiresAt == map[token] IN
  IF expiresAt = Absent \/ expiresAt = 0
    THEN [ans |-> FALSE, map |-> map]
  ELSE IF t > expiresAt
    THEN [ans |-> FALSE, map |-> [map EXCEPT ![token] = Absent]]
  ELSE [ans |-> TRUE, map |-> map]

\* cleanup() that also drops the entries that expire now
MemoryBlacklistCleanupEarly(map, t) ==
  [k \in MemKeys |-> IF map[k] # Absent /\ t >= map[k] THEN Absent ELSE map[k]]

\* cleanup()
MemoryBlacklistCleanup(map, t) ==
  [k \in MemKeys |-> IF map[k] # Absent /\ t > map[k] THEN Absent ELSE map[k]]

MemQuiet ==
  /\ memNow = 1
  /\ memTokens = [k \in MemKeys |-> Absent]
  /\ memAdded = [k \in MemKeys |-> Absent]

-----------------------------------------------------------------------------
(* The browser storage of the client.  "" is a value that is not there      *)
(* (getItem gives null) or a falsy argument.                                *)

NoItems == [token |-> "", refresh |-> "", remember |-> ""]

\* the tokens a server answer may carry ("": the field is missing)
StoreTokens == {"", "t1", "t2"}

NoCall == [op |-> "none", accessToken |-> "", refreshToken |-> "",
           remember |-> FALSE]

\* serverOk: POST /api/auth/logout was answered without error; cleared:
\* something was stored when logout came to clear
NoLogout == [pc |-> "idle", serverOk |-> FALSE, cleared |-> FALSE]

\* the two storages and the default header as one value
Browser(l, s, h) == [local |-> l, session |-> s, header |-> h]

\* setAuthTokens that leaves the opposite storage as it is
setAuthTokensKeepsOpposite(b, accessToken, refreshToken, remember) ==
  LET l1 == IF remember
              THEN [b.local EXCEPT !.token = accessToken,
                                   !.refresh = refreshToken]
            ELSE [b.local EXCEPT
                    !.token = IF accessToken = "" THEN "" ELSE @,
                    !.refresh = IF refreshToken = "" THEN "" ELSE @]
      s1 == IF remember
              THEN [b.session EXCEPT
                      !.token = IF accessToken = "" THEN "" ELSE @,
                      !.refresh = IF refreshToken = "" THEN "" ELSE @]
            ELSE [b.session EXCEPT !.token = accessToken,
                                     !.refresh = refreshToken]
  IN Browser([l1 EXCEPT !.remember = IF remember THEN "true" ELSE ""],
             s1, accessToken)

\* setAuthTokens(accessToken, refreshToken, remember): the opposite storage
\* is cleared, a truthy token is stored and a falsy one removed from both
\* storages, the header follows the access token, and the remember key is
\* kept in localStorage only
setAuthTokens(b, accessToken, refreshToken, remember) ==
  LET l0 == IF remember THEN b.local ELSE NoItems
      s0 == IF remember THEN NoItems ELSE b.session
      l1 == IF remember
              THEN [l0 EXCEPT !.token = accessToken]
            ELSE [l0 EXCEPT !.token = IF accessToken = "" THEN "" ELSE @]
      s1 == IF remember
              THEN [s0 EXCEPT !.token = IF accessToken = "" THEN "" ELSE @]
            ELSE [s0 EXCEPT !.token = accessToken]
      l2 == IF remember
              THEN [l1 EXCEPT !.refresh = refreshToken]
            ELSE [l1 EXCEPT !.refresh = IF refreshToken = "" THEN "" ELSE @]
      s2 == IF remember
              THEN [s1 EXCEPT !.refresh = IF refreshToken = "" THEN "" ELSE @]
            ELSE [s1 EXCEPT !.refresh = refreshToken]
  IN Browser([l2 EXCEPT !.remember = IF remember THEN "true" ELSE ""],
             s2, accessToken)

\* getStoredTokens()
getStoredTokens(b) ==
  LET remember == b.local.remember = "true"
      storage == IF remember THEN b.local ELSE b.session
  IN [accessToken |-> storage.token, refreshToken |-> storage.refresh,
      remember |-> remember]

\* clearAllTokens()
clearAllTokens(b) ==
  Browser(NoItems, [b.session EXCEPT !.token = "", !.refresh = ""], "")

\* the end of logout() that clears only after a successful server call
logoutEndIfServerOk(b, serverOk) == IF serverOk THEN clearAllTokens(b) ELSE b

\* logout() after its try/catch around POST /api/auth/logout
logoutEnd(b, serverOk) == clearAllTokens(b)

StoreQuiet ==
  /\ localStorage = NoItems
  /\ sessionStorage = NoItems
  /\ authHeader = ""
  /\ lastCall = NoCall
  /\ logoutPc = NoLogout

AuxQuiet == MemQuiet /\ StoreQuiet /\ mailed = {}

\* no Google login and no refresh is under way
OAuthQuiet ==
  /\ accounts = {}
  /\ AuxQuiet
  /\ oauth = [l \in Logins |-> NoLogin]
  /\ racing = [k \in Racers |-> NoRacer]
  /\ writes = 0

\* User.findOne({ email }): a committed document with the e-mail, or 0
\* the document MongoDB returns first: the oldest
first(docs) ==
  IF docs = {} THEN NoDoc ELSE CHOOSE d \in docs : \A e \in docs : d <= e

\* User.findOne({ email }): a committed document with the e-mail, or null
findOneByEmail(docs) == first(docs \ {OtherEmail})

\* User.findOne({ googleId }): the password account has no googleId
findOneByGoogleId(docs) == first(docs \ {0})

\* the collection after new User(...).save() or the commit of User.create:
\* the store adds the document, whatever it holds already
insertUser(docs, id) == docs \cup {id}

\* a request arrives: POST /google of routes/auth.js, or googleLogin
OAuthStart(l, via, emailVerified) ==
  /\ oauth[l].pc = "idle"
  /\ oauth' = [oauth EXCEPT ![l].via = via,
                            ![l].pc = IF via = "helper" /\ ~emailVerified
                                        THEN "failed" ELSE "lookup"]
  /\ UNCHANGED <<accounts, srvVars, cliVars, raceVars, auxVars>>

\* let user = await User.findOne({ email })
OAuthFindByEmail(l) ==
  /\ oauth[l].pc = "lookup"
  /\ oauth' = [oauth EXCEPT ![l].user = findOneByEmail(accounts),
                            ![l].pc = IF oauth[l].via = "route" THEN "save"
                                      ELSE "txn"]
  /\ UNCHANGED <<accounts, srvVars, cliVars, raceVars, auxVars>>

\* the route: if (!user) { user = new User(...); await user.save() } else
\* { ...; await user.save() }
OAuthSave(l) ==
  /\ oauth[l].pc = "save"
  /\ accounts' = IF oauth[l].user = NoDoc THEN insertUser(accounts, l)
                 ELSE accounts
  /\ oauth' = [oauth EXCEPT ![l].user = IF oauth[l].user = NoDoc THEN l
                                        ELSE oauth[l].user,
                            ![l].created = (oauth[l].user = NoDoc),
                            ![l].pc = "done"]
  /\ UNCHANGED <<srvVars, cliVars, raceVars, auxVars>>

\* googleLogin, inside withTransaction: if (!user) user = await
\* User.findOne({ googleId }), a read that is not given the session
OAuthFindByGoogleId(l) ==
  /\ oauth[l].pc = "txn"
  /\ oauth' = [oauth EXCEPT ![l].user = IF oauth[l].user = NoDoc
                                          THEN findOneByGoogleId(accounts)
                                        ELSE oauth[l].user,
                            ![l].pc = "write"]
  /\ UNCHANGED <<accounts, srvVars, cliVars, raceVars, auxVars>>

\* if (!user) User.create([...], { session }) else user.save({ session }):
\* the insert is the transaction's own until it commits
OAuthWrite(l) ==
  /\ oauth[l].pc = "write"
  /\ oauth' = [oauth EXCEPT ![l].pending = (oauth[l].user = NoDoc),
                            ![l].created = (oauth[l].user = NoDoc),
                            ![l].user = IF oauth[l].user = NoDoc THEN l
                                        ELSE oauth[l].user,
                            ![l].pc = "commit"]
  /\ UNCHANGED <<accounts, srvVars, cliVars, raceVars, auxVars>>

\* the callback of withTransaction returns and the transaction commits
OAuthCommit(l) ==
  /\ oauth[l].pc = "commit"
  /\ accounts' = IF oauth[l].pending THEN insertUser(accounts, l)
                 ELSE accounts
  /\ oauth' = [oauth EXCEPT ![l].pending = FALSE, ![l].pc = "done"]
  /\ UNCHANGED <<srvVars, cliVars, raceVars, auxVars>>

OAuthNext ==
  \/ \E l \in Logins, via \in {"route", "helper"}, ev \in BOOLEAN :
       OAuthStart(l, via, ev)
  \/ \E l \in Logins : OAuthFindByEmail(l)
  \/ \E l \in Logins : OAuthSave(l)
  \/ \E l \in Logins : OAuthFindByGoogleId(l)
  \/ \E l \in Logins : OAuthWrite(l)
  \/ \E l \in Logins : OAuthCommit(l)

-----------------------------------------------------------------------------
(* The server as a state machine *)

T == <<now, frac>>

Tokens == UNION {{p.accessToken, p.refreshToken} : p \in issued}

\* what a caller can put into a request: nothing, junk, or a token it was given
Presentable == {NoToken, Malformed} \cup Tokens

\* the pair that was returned together with an access token
SessionOf(token) == CHOOSE p \in issued : p.accessToken = token

\* a user record is absent, registered with a pending OTP (POST /register
\* at time 0), or verified
InitUsers ==
  [Users -> {NoUser,
             register([u \in Users |-> NoUser], 1, <<0, 0>>).users[1],
             [NoUser EXCEPT !.exists = TRUE, !.isVerified = TRUE]}]

SrvInit(tracking) ==
  /\ OAuthQuiet
  /\ track = tracking
  /\ jwtSecret = "s1" /\ jwtRefreshSecret = "s2"
  /\ now = 0 /\ frac = 0 /\ ticks = 0
  /\ users \in InitUsers
  /\ redisAvailable \in BOOLEAN
  /\ blacklist = {}
  /\ issued = {} /\ loggedOut = {} /\ revoked = {}

\* the store and the response a handler leaves, and the pair it handed out
Handled(o) ==
  /\ users' = o.users
  /\ issued' = IF o.resp.tokens # NoPair THEN issued \cup {o.resp.tokens}
               ELSE issued
  /\ Cardinality(issued') <= MaxIssued

Tick(j) ==
  /\ ticks < MaxTicks
  /\ ticks' = ticks + 1
  /\ now' = AddMs(T, j[1] * MsPerSec + j[2])[1]
  /\ frac' = AddMs(T, j[1] * MsPerSec + j[2])[2]
  \* redis drops a key when its PX lifetime has run out
  /\ blacklist' = {e \in blacklist : ~TimeGE(<<now', frac'>>, e.at)}
  /\ UNCHANGED <<users, redisAvailable, issued, loggedOut,
                 revoked, track>>
  /\ UNCHANGED <<envVars, cliVars, oauthVars, raceVars, auxVars>>

VerifyOtp(u, otpOk, remember) ==
  /\ Handled(verifyOtp(users, u, otpOk, remember, T))
  /\ UNCHANGED <<now, frac, ticks, redisAvailable, blacklist,
                 loggedOut, revoked, track>>
  /\ UNCHANGED <<envVars, cliVars, oauthVars, raceVars, auxVars>>

Login(u, pwOk, remember) ==
  /\ Handled(login(users, u, pwOk, remember, T))
  /\ UNCHANGED <<now, frac, ticks, redisAvailable, blacklist,
                 loggedOut, revoked, track>>
  /\ UNCHANGED <<envVars, cliVars, oauthVars, raceVars, auxVars>>

GoogleRoute(u, remember) ==
  /\ Handled(googleRoute(users, u, remember, T))
  /\ UNCHANGED <<now, frac, ticks, redisAvailable, blacklist,
                 loggedOut, revoked, track>>
  /\ UNCHANGED <<envVars, cliVars, oauthVars, raceVars, auxVars>>

GoogleLogin(u, emailVerified, remember) ==
  /\ Handled(googleLogin(users, u, emailVerified, remember, T))
  /\ UNCHANGED <<now, frac, ticks, redisAvailable, blacklist,
                 loggedOut, revoked, track>>
  /\ UNCHANGED <<envVars, cliVars, oauthVars, raceVars, auxVars>>

\* POST /refresh, and refreshTokens behind POST /refresh of auth-enhanced.js
Refresh(token, remember, via) ==
  LET o == refresh(users, token, remember, T, via) IN
  /\ Handled(o)
  /\ UNCHANGED <<now, frac, ticks, redisAvailable, blacklist, loggedOut,
                 revoked, track>>
  /\ UNCHANGED <<envVars, cliVars, oauthVars, raceVars, auxVars>>

\* POST /logout of routes/auth.js
LogoutRoute(token) ==
  \E fails \in BOOLEAN :
  LET g == auth(users, blacklist, redisAvailable, fails, token, T) IN
  /\ IF g.status # 200
       THEN UNCHANGED <<users, loggedOut, track>>
       ELSE /\ users' = logoutRoute(users, g.sub)
            /\ loggedOut' = IF track THEN loggedOut \cup {SessionOf(token)}
                            ELSE loggedOut
  /\ UNCHANGED <<now, frac, ticks, redisAvailable, blacklist, issued,
                 revoked, track>>
  /\ UNCHANGED <<envVars, cliVars, oauthVars, raceVars, auxVars>>

LoginEnhanced(u, pwOk, remember, ctx) ==
  /\ Handled(loginEnhanced(users, u, pwOk, remember, ctx, T))
  /\ UNCHANGED <<now, frac, ticks, redisAvailable, blacklist,
                 loggedOut, revoked, track>>
  /\ UNCHANGED <<envVars, cliVars, oauthVars, raceVars, auxVars>>

\* POST /logout of routes/auth-enhanced.js: token passed the gate, cookie is
\* req.cookies.accessToken
LogoutEnhanced(token, cookie) ==
  \E fails \in BOOLEAN :
  LET g == auth(users, blacklist, redisAvailable, fails, token, T)
      o == logout(users, blacklist, redisAvailable, cookie, g.sub, T) IN
  /\ IF g.status # 200
       THEN UNCHANGED <<users, blacklist, loggedOut, revoked, track>>
       ELSE /\ users' = o.users
            /\ blacklist' = o.blacklist
            /\ revoked' = IF track /\ cookie # NoToken
                            THEN revoked \cup {cookie} ELSE revoked
            /\ loggedOut' = IF track /\ cookie = token
                              THEN loggedOut \cup {SessionOf(token)}
                            ELSE loggedOut
  /\ UNCHANGED <<now, frac, ticks, redisAvailable, issued, track>>
  /\ UNCHANGED <<envVars, cliVars, oauthVars, raceVars, auxVars>>

\* an administrator sets or clears isSuspended on a user record
SetSuspended(u, b) ==
  /\ users[u].exists /\ users[u].isSuspended # b
  /\ users' = [users EXCEPT ![u].isSuspended = b]
  /\ UNCHANGED <<now, frac, ticks, redisAvailable, blacklist, issued,
                 loggedOut, revoked, track>>
  /\ UNCHANGED <<envVars, cliVars, oauthVars, raceVars, auxVars>>

\* redis.on('connect' | 'ready') and redis.on('error' | 'close')
RedisEvent(up) ==
  /\ redisAvailable # up
  /\ redisAvailable' = up
  /\ UNCHANGED <<now, frac, ticks, users, blacklist, issued,
                 loggedOut, revoked, track>>
  /\ UNCHANGED <<envVars, cliVars, oauthVars, raceVars, auxVars>>

SrvNext ==
  \/ \E j \in Jumps : Tick(j)
  \/ \E u \in Users, otpOk \in BOOLEAN, remember \in BOOLEAN :
       VerifyOtp(u, otpOk, remember)
  \/ \E u \in Users, pwOk \in BOOLEAN, remember \in BOOLEAN :
       Login(u, pwOk, remember)
  \/ \E u \in Users, remember \in BOOLEAN : GoogleRoute(u, remember)
  \/ \E u \in Users, ev \in BOOLEAN, remember \in BOOLEAN :
       GoogleLogin(u, ev, remember)
  \/ \E token \in Presentable, remember \in BOOLEAN, via \in {"route", "helper"} :
       Refresh(token, remember, via)
  \/ \E token \in Presentable : LogoutRoute(token)
  \/ \E token \in Presentable :
       \E cookie \in {token, NoToken, Malformed} : LogoutEnhanced(token, cookie)
  \/ \E u \in Users, b \in BOOLEAN : SetSuspended(u, b)
  \/ \E up \in BOOLEAN : RedisEvent(up)

-----------------------------------------------------------------------------
(* Refresh Coordinator: AuthProvider of context/AuthContext.jsx.  A step is *)
(* one task of the event loop: a response arrives and the interceptor and   *)
(* every promise continuation it sets off run until the next await of an    *)
(* HTTP call.                                                               *)

Reqs == 1..NReq

\* turn: the place at which processQueue settled the request's promise
\*     (0: it never waited in the queue)
\* st: "new" not sent, "sent" waiting for a response, "refreshing" waiting
\*     for the refresh call it issued, "queued" waiting in failedQueue,
\*     "done" answered, "rejected" rejected to its caller
\* retry: originalRequest._retry; excl: the URL is one of isExcludedPath
\* sends: how often it was sent; out: what the coordinator did with it
\* epoch, had: when the interceptor took the request's first 401, the number
\*     of refresh calls settled by then and whether a refresh token was stored
NewReq == [st |-> "new", retry |-> FALSE, excl |-> FALSE, sends |-> 0,
           out |-> "none", epoch |-> 0, had |-> FALSE, turn |-> 0]

\* the interceptor without originalRequest._retry = true
markRetryForgotten(rq) == rq

\* originalRequest._retry = true
markRetry(rq) == [rq EXCEPT !.retry = TRUE]

\* the interceptor takes the request's first 401
taken(rq, n, has) == [markRetry(rq) EXCEPT !.epoch = n, !.had = has]

\* the URLs of requests, as their path segments
Urls == { <<"api", "products">>, <<"api", "auth", "me">>,
          <<"api", "auth", "login">>, <<"api", "auth", "logout">>,
          <<"api", "auth", "refresh">>, <<"api", "payment", "intent">>,
          <<"api", "payment", "history">> }

\* url.includes(pat), pat a run of whole segments
includes(url, pat) ==
  \E i \in 0..(Len(url) - Len(pat)) :
    \A k \in 1..Len(pat) : url[i + k] = pat[k]

\* const isExcludedPath = url.includes('/logout') || ... ('/payment/intent')
isExcludedPath(url) ==
  \/ includes(url, <<"logout">>)
  \/ includes(url, <<"login">>)
  \/ includes(url, <<"refresh">>)
  \/ includes(url, <<"payment", "intent">>)

\* the interceptor's test without isExcludedPath
mayRefreshAnyPath(rq) == ~rq.retry

\* if (!originalRequest._retry && !isExcludedPath)
mayRefresh(rq) == ~rq.retry /\ ~rq.excl

\* the codes with which the gate answers 401
Codes401 == {"NO_TOKEN", "TOKEN_INVALIDATED", "TOKEN_EXPIRED", "INVALID_TOKEN",
             "INVALID_TOKEN_TYPE", "USER_NOT_FOUND"}

\* the interceptor's decision to call refreshAccessToken for the error
\* response resp to request rq: err.response?.status === 401 and the test
\* of _retry and the path; err.response.data.code is not read
attemptsRefresh(resp, rq) == resp.status = 401 /\ mayRefresh(rq)

\* refreshAccessToken without the test of isRefreshing.current
joinsNever(refreshing) == FALSE

\* refreshAccessToken that puts every caller into the queue
joinsAlways(refreshing) == TRUE

\* if (isRefreshing.current): wait for the refresh that is under way
joins(refreshing) == refreshing

\* axios(originalRequest) with the new access token (sends is capped for
\* the model's sake: the request is dropped instead of sent a MaxSends+1st
\* time)
resend(rq) ==
  IF rq.sends < MaxSends
    THEN [rq EXCEPT !.st = "sent", !.sends = @ + 1, !.out = "retried"]
  ELSE [rq EXCEPT !.st = "rejected", !.out = "retried"]

\* return Promise.reject(err)
reject(rq) == [rq EXCEPT !.st = "rejected", !.out = "refused"]

InQueue(q, r) == \E k \in 1..Len(q) : q[k] = r

\* processQueue that empties the queue and settles none of its promises
processQueueSettlesNone(rs, q, error) == rs

\* processQueue that resolves every promise, whatever the error
processQueueResolveAll(rs, q, error) ==
  [r \in Reqs |-> IF InQueue(q, r) THEN resend(rs[r]) ELSE rs[r]]

\* the iteration of failedQueue.current.forEach that reaches r's promise
turnOf(q, r) == CHOOSE k \in 1..Len(q) : q[k] = r

\* processQueue that goes through the queue from its end
processQueueLastFirst(rs, q, error) ==
  [r \in Reqs |->
     IF InQueue(q, r)
       THEN [(IF error THEN reject(rs[r]) ELSE resend(rs[r]))
               EXCEPT !.turn = Len(q) + 1 - turnOf(q, r)]
     ELSE rs[r]]

\* processQueue(error, token) and the continuations of the promises it
\* settles: each queued request is re-sent (token) or rejected (error);
\* turn is the place of the request among those settled by the call
processQueue(rs, q, error) ==
  [r \in Reqs |->
     IF InQueue(q, r)
       THEN [(IF error THEN reject(rs[r]) ELSE resend(rs[r]))
               EXCEPT !.turn = turnOf(q, r)]
     ELSE rs[r]]

CliInit ==
  /\ isRefreshing = FALSE
  /\ failedQueue = <<>>
  /\ req = [r \in Reqs |-> NewReq]
  /\ stored \in BOOLEAN
  /\ isAuthenticated = stored
  /\ inflight = 0 /\ calls = 0 /\ settles = 0 /\ logouts = 0
  /\ settled = "none"
  /\ notified = FALSE

CliQuiet ==
  /\ isRefreshing = FALSE
  /\ failedQueue = <<>>
  /\ req = [r \in Reqs |-> NewReq]
  /\ stored = FALSE
  /\ isAuthenticated = FALSE
  /\ inflight = 0 /\ calls = 0 /\ settles = 0 /\ logouts = 0
  /\ settled = "none"
  /\ notified = FALSE

SrvQuiet ==
  /\ OAuthQuiet
  /\ track = FALSE
  /\ jwtSecret = "s1" /\ jwtRefreshSecret = "s2"
  /\ now = 0 /\ frac = 0 /\ ticks = 0
  /\ users = [u \in Users |-> NoUser]
  /\ redisAvailable = FALSE
  /\ blacklist = {}
  /\ issued = {} /\ loggedOut = {} /\ revoked = {}

\* a component issues a request to url
Send(r, url) ==
  /\ req[r].st = "new"
  /\ req' = [req EXCEPT ![r] = [@ EXCEPT !.st = "sent",
                                         !.excl = isExcludedPath(url),
                                         !.sends = 1]]
  /\ UNCHANGED <<isRefreshing, failedQueue, stored, isAuthenticated, inflight,
                 calls, settles, logouts, settled, notified>>
  /\ UNCHANGED <<srvVars, oauthVars, raceVars, auxVars>>

\* a response other than 401 arrives: resp => resp, or an error passed on
Answer(r) ==
  /\ req[r].st = "sent"
  /\ req' = [req EXCEPT ![r].st = "done"]
  /\ UNCHANGED <<isRefreshing, failedQueue, stored, isAuthenticated, inflight,
                 calls, settles, logouts, settled, notified>>
  /\ UNCHANGED <<srvVars, oauthVars, raceVars, auxVars>>

\* a 401 arrives for request r: the response interceptor, and
\* refreshAccessToken up to its first await
Respond401(r) ==
  \E code \in Codes401 :
  /\ req[r].st = "sent"
  /\ IF ~attemptsRefresh([status |-> 401, code |-> code], req[r])
       THEN /\ req' = [req EXCEPT ![r].st = "rejected"]
            /\ UNCHANGED <<isRefreshing, failedQueue, inflight, calls, logouts,
                           notified>>
     ELSE IF joins(isRefreshing)
       THEN /\ failedQueue' = Append(failedQueue, r)
            /\ req' = [req EXCEPT ![r] = [taken(@, settles, stored) EXCEPT
                                            !.st = "queued"]]
            /\ UNCHANGED <<isRefreshing, inflight, calls, logouts, notified>>
     ELSE IF ~stored
       THEN \* no refresh token: logout(), processQueue(error), return null
            /\ logouts' = logouts + 1
            /\ req' = [processQueue(req, failedQueue, TRUE) EXCEPT
                         ![r] = reject(taken(req[r], settles, stored))]
            /\ failedQueue' = <<>>
            /\ isRefreshing' = FALSE
            /\ notified' = (notified \/ Len(failedQueue) > 0)
            /\ UNCHANGED <<inflight, calls>>
     ELSE   \* axios.post('/api/auth/refresh', ...)
            /\ isRefreshing' = TRUE
            /\ inflight' = inflight + 1
            /\ calls' = calls + 1
            /\ notified' = FALSE
            /\ req' = [req EXCEPT ![r] = [taken(@, settles, stored) EXCEPT
                                            !.st = "refreshing"]]
            /\ UNCHANGED <<failedQueue, logouts>>
  /\ UNCHANGED <<stored, isAuthenticated, settles, settled>>
  /\ UNCHANGED <<srvVars, oauthVars, raceVars, auxVars>>

\* the refresh call of request r settles.  how: "token" a response with an
\* accessToken, "empty" a response without one, "error" the call rejects
Settle(r, how) ==
  /\ req[r].st = "refreshing"
  /\ inflight' = inflight - 1
  /\ settles' = settles + 1
  /\ settled' = how
  /\ isRefreshing' = FALSE
  /\ failedQueue' = <<>>
  /\ req' = [processQueue(req, failedQueue, how # "token") EXCEPT
               ![r] = IF how = "token" THEN resend(req[r]) ELSE reject(req[r])]
  \* only a queued caller reaches the interceptor's catch and its toast
  /\ notified' = (notified \/ (how # "token" /\ Len(failedQueue) > 0))
  /\ stored' = IF how = "token" THEN TRUE
               ELSE IF how = "error" THEN FALSE ELSE stored
  /\ isAuthenticated' = IF how = "token" THEN TRUE
                        ELSE IF how = "error" THEN FALSE ELSE isAuthenticated
  /\ UNCHANGED <<calls, logouts>>
  /\ UNCHANGED <<srvVars, oauthVars, raceVars, auxVars>>

\* logout() after its POST /api/auth/logout: clearAllTokens, LOGOUT
LogoutDone ==
  /\ logouts > 0
  /\ logouts' = logouts - 1
  /\ stored' = FALSE
  /\ isAuthenticated' = FALSE
  /\ UNCHANGED <<isRefreshing, failedQueue, req, inflight, calls, settles,
                 settled, notified>>
  /\ UNCHANGED <<srvVars, oauthVars, raceVars, auxVars>>

CliNext ==
  \/ \E r \in Reqs, url \in Urls : Send(r, url)
  \/ \E r \in Reqs : Answer(r)
  \/ \E r \in Reqs : Respond401(r)
  \/ \E r \in Reqs, how \in {"token", "empty", "error"} : Settle(r, how)
  \/ LogoutDone

-----------------------------------------------------------------------------
(* Specifications *)

\* the server; HistSpec is the same machine with the histories recorded
Init == SrvInit(FALSE) /\ CliQuiet

Spec == Init /\ [][SrvNext]_vars

HistInit == SrvInit(TRUE) /\ CliQuiet

HistSpec == HistInit /\ [][SrvNext]_vars

\* the client's Refresh Coordinator, the server answering as it may
ClientInit == SrvQuiet /\ CliInit

ClientSpec == ClientInit /\ [][CliNext]_vars

\* the same with every refresh call answered or failed in the end: the
\* promise of axios.post settles, and the continuation after the await runs
ClientLiveSpec ==
  /\ ClientInit
  /\ [][CliNext]_vars
  /\ WF_vars(\E r \in Reqs, how \in {"token", "empty", "error"} : Settle(r, how))

\* the deployments of the gate: JWT_SECRET and JWT_REFRESH_SECRET are any two
\* strings that are set, and the one account is absent, a user or an admin
GateInit ==
  /\ OAuthQuiet
  /\ track = FALSE
  /\ jwtSecret = "s1" /\ jwtRefreshSecret \in {"s1", "s2"}
  /\ now = 0 /\ frac = 0 /\ ticks = 0
  /\ users \in [Users -> {NoUser,
                          [NoUser EXCEPT !.exists = TRUE, !.isVerified = TRUE],
                          [NoUser EXCEPT !.exists = TRUE, !.isVerified = TRUE,
                                         !.role = "admin"]}]
  /\ redisAvailable \in BOOLEAN
  /\ blacklist = {}
  /\ issued = {} /\ loggedOut = {} /\ revoked = {}
  /\ CliQuiet

GateNext ==
  \/ \E j \in Jumps : Tick(j)
  \/ \E u \in Users, pwOk \in BOOLEAN, remember \in BOOLEAN :
       Cardinality(issued) < MaxGatePairs /\ Login(u, pwOk, remember)
  \/ \E u \in Users, pwOk \in BOOLEAN, remember \in BOOLEAN, ctx \in Contexts :
       Cardinality(issued) < MaxGatePairs
         /\ LoginEnhanced(u, pwOk, remember, ctx)
  \/ \E token \in Presentable :
       \E cookie \in {token, NoToken, Malformed} : LogoutEnhanced(token, cookie)
  \/ \E u \in Users, b \in BOOLEAN : SetSuspended(u, b)
  \/ \E up \in BOOLEAN : RedisEvent(up)

GateSpec == GateInit /\ [][GateNext]_vars

\* a refresh request arrives and runs up to the return of User.findById
RaceRead(k, token, remember, via) ==
  LET c == refreshEarly(token, T, via) IN
  /\ racing[k].pc = "idle"
  /\ racing' = [racing EXCEPT ![k] =
       IF c # "pass"
         THEN [@ EXCEPT !.pc = "done", !.via = via, !.token = token,
                        !.remember = remember,
                        !.got = Reply(via, EarlyStatus(c), c, 0, NoPair, FALSE)]
       ELSE [@ EXCEPT !.pc = "read", !.via = via, !.token = token,
                      !.remember = remember, !.doc = users[token.sub],
                      !.readAt = writes]]
  /\ UNCHANGED <<writes, srvVars, cliVars, oauthVars, auxVars>>

\* the rest of the handler: the checks on the document it holds, the new
\* pair, user.save() and the response
RaceWrite(k) ==
  LET rc == racing[k]
      o == refreshFinish(users, rc.doc, rc.token, rc.remember, T, rc.via) IN
  /\ rc.pc = "read"
  /\ users' = o.users
  /\ issued' = IF o.resp.tokens # NoPair THEN issued \cup {o.resp.tokens}
               ELSE issued
  /\ writes' = IF o.resp.status = 200 THEN writes + 1 ELSE writes
  /\ racing' = [racing EXCEPT ![k].pc = "done", ![k].got = o.resp,
                              ![k].seq = IF o.resp.status = 200
                                           THEN writes + 1 ELSE 0]
  /\ UNCHANGED <<now, frac, ticks, redisAvailable, blacklist, loggedOut,
                 revoked, track, envVars, cliVars, oauthVars, auxVars>>

\* a verified account that has logged in at time 0
RaceInit ==
  LET o == login([u \in Users |->
                    [NoUser EXCEPT !.exists = TRUE, !.isVerified = TRUE]],
                 1, TRUE, FALSE, <<0, 0>>) IN
  /\ jwtSecret = "s1" /\ jwtRefreshSecret = "s2"
  /\ users = o.users
  /\ issued = {o.resp.tokens}
  /\ OAuthQuiet
  /\ track = FALSE
  /\ now = 0 /\ frac = 0 /\ ticks = 0
  /\ redisAvailable = FALSE
  /\ blacklist = {}
  /\ loggedOut = {} /\ revoked = {}
  /\ CliQuiet

RaceNext ==
  \/ \E j \in Jumps : Tick(j)
  \/ \E k \in Racers, token \in Tokens, remember \in BOOLEAN, via \in Vias :
       RaceRead(k, token, remember, via)
  \/ \E k \in Racers : RaceWrite(k)

\* refresh requests whose steps interleave
RaceSpec == RaceInit /\ [][RaceNext]_vars

\* Google logins arriving while the e-mail is new or has a password account,
\* and the Google subject id is new or belongs to an account of another e-mail
OAuthInit ==
  /\ AuxQuiet
  /\ accounts \in SUBSET {0, OtherEmail}
  /\ oauth = [l \in Logins |-> NoLogin]
  /\ racing = [k \in Racers |-> NoRacer]
  /\ writes = 0
  /\ track = FALSE
  /\ jwtSecret = "s1" /\ jwtRefreshSecret = "s2"
  /\ now = 0 /\ frac = 0 /\ ticks = 0
  /\ users = [u \in Users |-> NoUser]
  /\ redisAvailable = FALSE
  /\ blacklist = {}
  /\ issued = {} /\ loggedOut = {} /\ revoked = {}
  /\ CliQuiet

OAuthSpec == OAuthInit /\ [][OAuthNext]_vars

\* the in-memory blacklist: add and has called at any time, the clock
\* advancing, and the interval timer running cleanup in between
MemAdd(token, ttl) ==
  /\ memTokens' = MemoryBlacklistAdd(memTokens, token, ttl, memNow)
  /\ memAdded' = [memAdded EXCEPT ![token] = memNow + ttl]
  /\ UNCHANGED <<memNow, storeVars, resetVars>>
  /\ UNCHANGED <<srvVars, cliVars, oauthVars, raceVars>>

MemHas(token) ==
  /\ memTokens' = MemoryBlacklistHas(memTokens, token, memNow).map
  /\ UNCHANGED <<memNow, memAdded, storeVars, resetVars>>
  /\ UNCHANGED <<srvVars, cliVars, oauthVars, raceVars>>

MemCleanup ==
  /\ memTokens' = MemoryBlacklistCleanup(memTokens, memNow)
  /\ UNCHANGED <<memNow, memAdded, storeVars, resetVars>>
  /\ UNCHANGED <<srvVars, cliVars, oauthVars, raceVars>>

MemTick ==
  /\ memNow < MaxMemNow
  /\ memNow' = memNow + 1
  /\ UNCHANGED <<memTokens, memAdded, storeVars, resetVars>>
  /\ UNCHANGED <<srvVars, cliVars, oauthVars, raceVars>>

MemNext ==
  \/ \E token \in MemKeys, ttl \in Ttls : MemAdd(token, ttl)
  \/ \E token \in MemKeys : MemHas(token)
  \/ MemCleanup
  \/ MemTick

MemInit == SrvQuiet /\ CliQuiet

MemSpec == MemInit /\ [][MemNext]_vars

\* the storage of the client: logins and refreshes store tokens, the
\* initialisation clears them when the profile cannot be fetched, and
\* logout() clears them after its call to the server
BrowserNow == Browser(localStorage, sessionStorage, authHeader)

BrowserBecomes(b) ==
  /\ localStorage' = b.local
  /\ sessionStorage' = b.session
  /\ authHeader' = b.header

\* setAuthTokens and LOGIN_SUCCESS after a login, an OTP verification, a
\* Google login or a refresh
StoreTokensOf(accessToken, refreshToken, remember) ==
  /\ BrowserBecomes(setAuthTokens(BrowserNow, accessToken, refreshToken, remember))
  /\ lastCall' = [op |-> "set", accessToken |-> accessToken,
                  refreshToken |-> refreshToken, remember |-> remember]
  /\ isAuthenticated' = TRUE
  /\ UNCHANGED <<logoutPc, memVars, resetVars>>
  /\ UNCHANGED <<isRefreshing, failedQueue, req, stored, inflight, calls,
                 settles, logouts, settled, notified>>
  /\ UNCHANGED <<srvVars, oauthVars, raceVars>>

\* clearAllTokens and LOGOUT in the catch of initializeAuth
StoreClear ==
  /\ lastCall.op # "none"
  /\ BrowserBecomes(clearAllTokens(BrowserNow))
  /\ lastCall' = [NoCall EXCEPT !.op = "clear"]
  /\ isAuthenticated' = FALSE
  /\ UNCHANGED <<logoutPc, memVars, resetVars>>
  /\ UNCHANGED <<isRefreshing, failedQueue, req, stored, inflight, calls,
                 settles, logouts, settled, notified>>
  /\ UNCHANGED <<srvVars, oauthVars, raceVars>>

\* logout() up to its await of POST /api/auth/logout
LogoutStart ==
  /\ logoutPc.pc # "posting"
  /\ logoutPc' = [NoLogout EXCEPT !.pc = "posting"]
  /\ UNCHANGED <<localStorage, sessionStorage, authHeader, lastCall,
                 memVars, resetVars>>
  /\ UNCHANGED <<srvVars, cliVars, oauthVars, raceVars>>

\* the call is answered or fails, and logout() runs to its end
LogoutEnd(serverOk) ==
  /\ logoutPc.pc = "posting"
  /\ BrowserBecomes(logoutEnd(BrowserNow, serverOk))
  /\ lastCall' = [NoCall EXCEPT !.op = "clear"]
  /\ isAuthenticated' = FALSE
  /\ logoutPc' = [pc |-> "ended", serverOk |-> serverOk,
                  cleared |-> getStoredTokens(BrowserNow).accessToken # ""]
  /\ UNCHANGED <<memVars, resetVars>>
  /\ UNCHANGED <<isRefreshing, failedQueue, req, stored, inflight, calls,
                 settles, logouts, settled, notified>>
  /\ UNCHANGED <<srvVars, oauthVars, raceVars>>

StorageNext ==
  \/ \E a \in StoreTokens, r \in StoreTokens, remember \in BOOLEAN :
       StoreTokensOf(a, r, remember)
  \/ StoreClear
  \/ LogoutStart
  \/ \E serverOk \in BOOLEAN : LogoutEnd(serverOk)

StorageInit == SrvQuiet /\ CliQuiet

StorageSpec == StorageInit /\ [][StorageNext]_vars

\* password resets next to logins
Passwords == {"pw1", "pw2"}

ForgotPassword(u) ==
  LET o == forgotPassword(users, u, T) IN
  /\ o.mail # NoToken
  /\ mailed' = mailed \cup {o.mail}
  /\ UNCHANGED <<memVars, storeVars>>
  /\ UNCHANGED <<srvVars, cliVars, oauthVars, raceVars>>

ResetPassword(token, password) ==
  /\ users' = resetPassword(users, token, password, T).users
  /\ UNCHANGED <<now, frac, ticks, redisAvailable, blacklist, issued,
                 loggedOut, revoked, track>>
  /\ UNCHANGED <<envVars, cliVars, oauthVars, raceVars, auxVars>>

ResetNext ==
  \/ \E j \in Jumps : Tick(j)
  \/ \E u \in Users, pwOk \in BOOLEAN, remember \in BOOLEAN :
       Login(u, pwOk, remember)
  \/ \E u \in Users : ForgotPassword(u)
  \/ \E token \in Presentable \cup mailed, password \in Passwords :
       ResetPassword(token, password)

ResetInit == SrvInit(FALSE) /\ CliQuiet

ResetSpec == ResetInit /\ [][ResetNext]_vars

-----------------------------------------------------------------------------
(* Properties of the server *)

\* a refresh token whose signature, type and expiry pass at the present time
LiveRefresh(token) ==
  token.typ = "refresh" /\ verifyToken(token, TRUE, now) = "ok"

\* an access token whose signature, type and expiry pass at the present time
LiveAccess(token) ==
  token.typ = "access" /\ verifyToken(token, FALSE, now) = "ok"

\* the answer to presenting token for refresh in the present state
RefreshNow(token, remember, via) == refresh(users, token, remember, T, via).resp

\* the gate's answer to token in the present state, redis answering
GateNow(token) == auth(users, blacklist, redisAvailable, FALSE, token, T)

\* the same when fails says whether the lookup in redis is rejected
GateWith(token, fails) == auth(users, blacklist, redisAvailable, fails, token, T)

Revoked(token) == isTokenBlacklisted(blacklist, redisAvailable, FALSE, token, T)

\* C1: when a refresh succeeds, presenting the refresh token that was just
\* exchanged is answered with REFRESH_TOKEN_MISMATCH in the store the
\* refresh leaves, whatever the user, the remember flags and the time.
C1_ExchangedTokenRejected ==
  \A token \in Presentable : \A remember \in BOOLEAN, via \in Vias :
    LET o == refresh(users, token, remember, T, via) IN
    o.resp.status = 200 =>
      \A again \in BOOLEAN, v \in Vias :
        IsMismatch(refresh(o.users, token, again, T, v).resp)

\* C2: in every reachable state a refresh succeeds only with the token held
\* in the user's record, so at most one token string is accepted per user,
\* and every other issued refresh token that has not expired is answered
\* with REFRESH_TOKEN_MISMATCH.
C2_OnlyStoredTokenAccepted ==
  \A token \in Tokens : \A remember \in BOOLEAN, via \in Vias :
    /\ RefreshNow(token, remember, via).status = 200
         => token = users[token.sub].refreshToken
    /\ (LiveRefresh(token) /\ token # users[token.sub].refreshToken)
         => IsMismatch(RefreshNow(token, remember, via))

\* two unexpired refresh tokens of one user have been issued; the stored one
\* is accepted and the other is refused as a mismatch
C2_Witness ==
  \E t1 \in Tokens, t2 \in Tokens :
    /\ t1 # t2 /\ t1.sub = t2.sub
    /\ LiveRefresh(t1) /\ LiveRefresh(t2)
    /\ RefreshNow(t1, FALSE, "route").status = 200
    /\ RefreshNow(t2, FALSE, "route").code = "REFRESH_TOKEN_MISMATCH"

\* C8: while a user's isSuspended flag is set the gate answers a token of
\* that user that is otherwise good with 403 ACCOUNT_SUSPENDED, and it
\* attaches no user for any token of that user; this holds in the state
\* right after the flag is set.
C8_SuspendedIsRefused ==
  \A token \in Presentable : \A fails \in BOOLEAN :
    Susp(users, token.sub) =>
      /\ GateWith(token, fails).status # 200 /\ GateWith(token, fails).sub = 0
      /\ (LiveAccess(token)
          /\ ~isTokenBlacklisted(blacklist, redisAvailable, fails, token, T))
           => (GateWith(token, fails).status = 403
               /\ GateWith(token, fails).code = "ACCOUNT_SUSPENDED")

\* a suspended user presents an unexpired, unrevoked access token issued to
\* them and is answered 403 ACCOUNT_SUSPENDED
C8_Witness ==
  \E token \in Tokens :
    /\ Susp(users, token.sub) /\ LiveAccess(token)
    /\ ~Revoked(token)
    /\ GateNow(token).code = "ACCOUNT_SUSPENDED"

\* C16: when redis is unavailable or the lookup is rejected, no token is
\* reported blacklisted and the gate answers as it would with nothing
\* revoked: it goes on to verify the token, and a token that is otherwise
\* good passes.
C16_StoreFailureFailsOpen ==
  \A token \in Presentable : \A fails \in BOOLEAN :
    (~redisAvailable \/ fails) =>
      /\ ~isTokenBlacklisted(blacklist, redisAvailable, fails, token, T)
      /\ GateWith(token, fails) = auth(users, {}, TRUE, FALSE, token, T)
      /\ (LiveAccess(token) /\ users[token.sub].exists
          /\ ~users[token.sub].isSuspended)
           => GateWith(token, fails).status = 200

\* redis has gone away while it holds the key of a revoked access token
\* that has not expired; the gate lets that token pass
C16_Witness ==
  /\ ~redisAvailable
  /\ \E token \in Tokens :
       /\ LiveAccess(token)
       /\ redisExists(blacklist, token, T)
       /\ GateNow(token).status = 200

\* C9: for a suspended user no issuing operation hands out tokens or
\* changes the stored refresh token, and each of them, given credentials
\* that would otherwise succeed, answers ACCOUNT_SUSPENDED.
C9_NoIssuanceWhenSuspended ==
  \A u \in Users : Susp(users, u) =>
    \A remember \in BOOLEAN :
      \A o \in {login(users, u, TRUE, remember, T),
                verifyOtp(users, u, TRUE, remember, T),
                googleRoute(users, u, remember, T),
                googleLogin(users, u, TRUE, remember, T),
                refresh(users, users[u].refreshToken, remember, T, "route"),
                refresh(users, users[u].refreshToken, remember, T, "helper")} :
        /\ o.resp.tokens = NoPair
        /\ o.users[u].refreshToken = users[u].refreshToken
        /\ (users[u].isVerified /\ o.resp.op \in {"login", "google", "googleLogin"})
             => o.resp.code \in {"ACCOUNT_SUSPENDED", "Account suspended"}

\* C6: every session that was logged out with its own access token stays
\* unusable: until it expires the access token is answered
\* TOKEN_INVALIDATED by the gate, and until it expires the refresh token is
\* answered REFRESH_TOKEN_MISMATCH.
C6_LoggedOutStaysUnusable ==
  \A p \in loggedOut :
    /\ now < p.accessToken.exp => GateNow(p.accessToken).code = "TOKEN_INVALIDATED"
    /\ now < p.refreshToken.exp =>
         \A remember \in BOOLEAN, via \in Vias :
           IsMismatch(RefreshNow(p.refreshToken, remember, via))

\* C7: every token handed to addToBlacklist is reported blacklisted exactly
\* as long as the expiry it carries has not been reached.
C7_RevokedUntilExpiry ==
  \A token \in revoked :
    token.typ # "malformed" =>
      (Revoked(token)
         <=> now < token.exp)

-----------------------------------------------------------------------------
(* Properties of the Refresh Coordinator *)

\* the requests waiting for the refresh call that another request issued
Queued == {r \in Reqs : req[r].st = "queued"}

\* every request has had its first 401 taken by the interceptor before any
\* refresh call settled: the 401s arrived together
AllTogether == \A r \in Reqs : req[r].retry /\ req[r].epoch = 0

AllRetried == \A r \in Reqs : req[r].out = "retried"

AllRefused == \A r \in Reqs : req[r].out = "refused" /\ req[r].st = "rejected"

NonePending == \A r \in Reqs : req[r].st \notin {"queued", "refreshing"}

\* C3: at most one refresh call is in flight at any time, and a 401 taken
\* while the coordinator is refreshing puts its request into the queue and
\* issues no refresh call.
C3_OneRefreshInFlight ==
  /\ [](inflight <= 1)
  /\ [][\A r \in Reqs :
          (isRefreshing /\ mayRefresh(req[r]) /\ Respond401(r))
          => /\ failedQueue' = Append(failedQueue, r)
             /\ calls' = calls /\ inflight' = inflight]_vars

\* a refresh call is in flight and a request that got its 401 meanwhile is
\* waiting in the queue
C3_Witness ==
  isRefreshing /\ inflight = 1 /\ calls = 1 /\ Len(failedQueue) > 0

\* C4 as stated: when all requests get a 401 together, exactly one refresh
\* call is issued, and once it has settled either all of them have been
\* retried or all of them have been rejected, none left waiting.
C4_OneCallOneOutcome ==
  AllTogether =>
    /\ calls = 1
    /\ inflight = 0 => (NonePending /\ (AllRetried \/ AllRefused))

\* C4 amended: the same with a refresh token in the storage when the 401s
\* are taken; with none in the storage no refresh call is issued at all
\* and every request is rejected.
C4_OneCallWhenTokenStored ==
  /\ (AllTogether /\ \A r \in Reqs : req[r].had) =>
       /\ calls = 1
       /\ inflight = 0 => (NonePending /\ (AllRetried \/ AllRefused))
  /\ (AllTogether /\ \A r \in Reqs : ~req[r].had) =>
       (calls = 0 /\ AllRefused)

\* all requests got their 401 together with a refresh token stored, the
\* one refresh call has succeeded and every one of them was sent again
C4_Witness ==
  /\ AllTogether /\ \A r \in Reqs : req[r].had
  /\ calls = 1 /\ inflight = 0 /\ settled = "token" /\ AllRetried

\* C5: no request is sent more than twice (once, and once more after a
\* refresh), and a request marked _retry that gets a 401 is rejected
\* without a refresh call being issued and without entering the queue.
C5_RetriedAtMostOnce ==
  /\ [](\A r \in Reqs : req[r].sends <= 2)
  /\ [][\A r \in Reqs :
          (req[r].retry /\ Respond401(r))
          => /\ req'[r].st = "rejected"
             /\ UNCHANGED <<isRefreshing, failedQueue, inflight, calls>>]_vars

\* a request was sent again after a refresh, got a 401 again and was
\* rejected
C5_Witness ==
  \E r \in Reqs :
    /\ req[r].retry /\ req[r].sends = 2
    /\ req[r].out = "retried" /\ req[r].st = "rejected"

\* C10: once the refresh call in flight has failed, nobody is left in the
\* queue, the session-expired notification has been shown and the
\* coordinator is idle.
C10_FailureIsSurfaced ==
  settled = "error" =>
    /\ Queued = {} /\ failedQueue = <<>>
    /\ notified
    /\ ~isRefreshing /\ inflight = 0

\* C11: however a refresh attempt ends without a new access token (no
\* refresh token stored and logout() finished, the refresh call rejected,
\* a response without accessToken), the client is logged out: no token is
\* left in the storage and isAuthenticated is false.
C11_FailedRefreshLogsOut ==
  /\ settled \in {"empty", "error"} => (~stored /\ ~isAuthenticated)
  /\ (logouts = 0 /\ \E r \in Reqs : req[r].out = "refused" /\ ~req[r].had)
       => (~stored /\ ~isAuthenticated)

-----------------------------------------------------------------------------
(* Lifetimes                                                                *)

Lifetime(token) == token.exp - token.iat

FollowsProfile(p, remember) ==
  /\ Lifetime(p.accessToken) = (IF remember THEN AccessLong ELSE AccessShort)
  /\ Lifetime(p.refreshToken) = (IF remember THEN RefreshLong ELSE RefreshShort)
  /\ p.expiresIn # "none" => Seconds(p.expiresIn) = Lifetime(p.accessToken)

\* what each handler that mints would answer now to a request with remember
MintedNow(remember) ==
  {o.resp : o \in
     UNION { {verifyOtp(users, u, TRUE, remember, T),
              login(users, u, TRUE, remember, T),
              googleRoute(users, u, remember, T),
              googleLogin(users, u, TRUE, remember, T)} : u \in Users }
     \cup {refresh(users, token, remember, T, via) :
             token \in Presentable, via \in Vias}}

\* C14: every call site that mints issues 15 minutes / 7 days without
\* remember and 7 days / 30 days with it and no other lifetime, the cookies
\* live as long as their tokens, and a reported expiresIn is the lifetime
\* of the access token
C14_LifetimesFollowRemember ==
  /\ \A p \in issued : FollowsProfile(p, TRUE) \/ FollowsProfile(p, FALSE)
  /\ \A remember \in BOOLEAN :
       /\ \A r \in MintedNow(remember) :
            r.status = 200 => /\ FollowsProfile(r.tokens, remember)
                             /\ r.tokens.expiresIn # "none"
       /\ \A u \in Users, ctx \in Contexts :
            LET o == loginEnhanced(users, u, TRUE, remember, ctx, T)
            IN o.resp.status = 200 =>
                 /\ FollowsProfile(o.resp.tokens, remember)
                 /\ o.cookies.accessTokenMaxAge
                      = Lifetime(o.cookies.accessToken)
                 /\ o.cookies.refreshTokenMaxAge
                      = Lifetime(o.cookies.refreshToken)
                 /\ o.cookies.rememberMe = remember

C14_Witness ==
  /\ \E p \in issued : FollowsProfile(p, TRUE) /\ p.expiresIn = "7d"
  /\ \E p \in issued : FollowsProfile(p, FALSE) /\ p.expiresIn = "15m"
  /\ \E u \in Users, ctx \in Contexts :
       loginEnhanced(users, u, TRUE, TRUE, ctx, T).resp.status = 200

-----------------------------------------------------------------------------
(* Properties of the Request Gate                                           *)

\* the user store as it is, and with the account removed since the login
Stores == {users, [u \in Users |-> NoUser]}

\* the step of the gate that fails first, in the order of the handler
FirstFailure(us, token, fails) ==
  LET v == verifyToken(token, FALSE, now) IN
  IF token = NoToken THEN <<401, "NO_TOKEN">>
  ELSE IF redisAvailable /\ ~fails /\ redisExists(blacklist, token, T)
    THEN <<401, "TOKEN_INVALIDATED">>
  ELSE IF v = "TokenExpiredError" THEN <<401, "TOKEN_EXPIRED">>
  ELSE IF v # "ok" THEN <<401, "INVALID_TOKEN">>
  ELSE IF token.typ # "access" THEN <<401, "INVALID_TOKEN_TYPE">>
  ELSE IF ~us[token.sub].exists THEN <<401, "USER_NOT_FOUND">>
  ELSE IF us[token.sub].isSuspended THEN <<403, "ACCOUNT_SUSPENDED">>
  ELSE <<200, "OK">>

\* C17: the gate answers with the first step that fails, in the order no
\* token, revoked, expired or invalid, wrong type, no such user, suspended,
\* and attaches the user and calls next exactly when none fails
C17_FirstFailingStep ==
  \A token \in Presentable : \A fails \in BOOLEAN : \A us \in Stores :
    LET g == auth(us, blacklist, redisAvailable, fails, token, T) IN
    /\ <<g.status, g.code>> = FirstFailure(us, token, fails)
    /\ g.sub = (IF g.status = 200 THEN token.sub ELSE 0)

C17_Witness ==
  /\ \E token \in Presentable :
       /\ Revoked(token) /\ verifyToken(token, FALSE, now) # "ok"
       /\ GateNow(token).code = "TOKEN_INVALIDATED"
  /\ \E token \in Presentable : GateNow(token).code = "INVALID_TOKEN_TYPE"
  /\ \E token \in Presentable :
       /\ GateNow(token).status = 200
       /\ auth([u \in Users |-> NoUser], blacklist, redisAvailable, FALSE,
               token, T).code = "USER_NOT_FOUND"

\* the optional gate's answer in the present state
OptionalWith(us, token, fails) ==
  optionalAuth(us, blacklist, redisAvailable, fails, token, T)

\* C18: optionalAuth never answers the request itself, calls next exactly
\* once, and sets req.user and req.token exactly when the gate would let the
\* same request through
C18_OptionalAttachesIffGatePasses ==
  \A token \in Presentable : \A fails \in BOOLEAN : \A us \in Stores :
    LET o == OptionalWith(us, token, fails)
        g == auth(us, blacklist, redisAvailable, fails, token, T) IN
    /\ ~o.sent /\ o.next = 1
    /\ (o.user # 0) <=> (g.status = 200)
    /\ o.user = g.sub
    /\ o.token = (IF g.status = 200 THEN token ELSE NoToken)

C18_Witness ==
  /\ \E token \in Tokens :
       /\ OptionalWith(users, token, FALSE).user = token.sub
       /\ GateNow(token).status = 200
  /\ \E token \in Tokens :
       /\ OptionalWith(users, token, FALSE).user = 0
       /\ GateNow(token).status = 401

\* req.user as the middleware in front of admin leaves it: none in front,
\* the gate, or the optional gate
AttachedBy(token, fails) ==
  {0, GateWith(token, fails).sub, OptionalWith(users, token, fails).user}

\* C19: admin calls next only for an attached user whose role is 'admin',
\* answers 403 ADMIN_REQUIRED for any other role, and rejects a request
\* without an attached user
C19_AdminOnly ==
  \A token \in Presentable : \A fails \in BOOLEAN :
    \A sub \in AttachedBy(token, fails) :
      LET a == admin(users, sub) IN
      /\ (a.status = 200) <=> (sub # 0 /\ users[sub].role = "admin")
      /\ (sub # 0 /\ users[sub].role # "admin")
           => (a.status = 403 /\ a.code = "ADMIN_REQUIRED")
      /\ sub = 0 => (a.status = 401 /\ a.code = "NO_USER")

C19_Witness ==
  \E token \in Tokens :
    /\ GateNow(token).status = 200
    /\ admin(users, GateNow(token).sub).status = 200
    /\ admin(users, OptionalWith(users, Malformed, FALSE).user).status = 401

\* an attached user who is no administrator is at the admin gate
C19_WitnessOtherRole ==
  \E token \in Tokens :
    /\ GateNow(token).status = 200
    /\ admin(users, GateNow(token).sub).code = "ADMIN_REQUIRED"

-----------------------------------------------------------------------------
(* Token types and secrets                                                  *)

\* the tokens handed out, and the same payloads signed by someone who does
\* not hold the deployment's secrets
Signed == Tokens \cup {[token EXCEPT !.key = "forged"] : token \in Tokens}

\* C12: the gate lets through only access tokens signed with JWT_SECRET and
\* refresh accepts only refresh tokens signed with JWT_REFRESH_SECRET, so an
\* access token is always rejected by refresh and a refresh token by the
\* gate, whether or not the two secrets differ
C12_TypeAndSecretPerEndpoint ==
  \A token \in Signed :
    /\ \A fails \in BOOLEAN :
         \/ GateWith(token, fails).status # 200
         \/ token.typ = "access" /\ token.key = jwtSecret
    /\ \A remember \in BOOLEAN, via \in Vias :
         \/ RefreshNow(token, remember, via).status # 200
         \/ token.typ = "refresh" /\ token.key = jwtRefreshSecret

\* with one secret for both types, the signature of a refresh token passes
\* at the gate and that of an access token at refresh
C12_Witness ==
  /\ jwtSecret = jwtRefreshSecret
  /\ \E token \in Tokens :
       /\ token.typ = "refresh"
       /\ GateNow(token).code = "INVALID_TOKEN_TYPE"
  /\ \E token \in Tokens :
       /\ token.typ = "access" /\ GateNow(token).status = 200
       /\ RefreshNow(token, FALSE, "route").code = "INVALID_TOKEN_TYPE"
       /\ RefreshNow(token, FALSE, "helper").status = 401

\* the verifier that belongs to the minter of token
Verified(token, isRefresh) ==
  IF token.fp = NoFp THEN verifyToken(token, isRefresh, now)
  ELSE verifyTokenWithFingerprint(token, token.fp, isRefresh, now)

\* C13: an unexpired access token minted by the codec verifies as an access
\* token, with its subject and type, and does not verify under the refresh
\* secret or as a refresh token
C13_RoundTripAndWrongType ==
  \A token \in Tokens :
    (token.typ = "access" /\ now < token.exp) =>
      /\ Verified(token, FALSE) = "ok"
      /\ Verified(token, TRUE) # "ok"

-----------------------------------------------------------------------------
(* Fingerprints                                                             *)

Fingerprinted == {token \in Tokens : token.fp # NoFp /\ now < token.exp}

\* C20: a token with an embedded fingerprint that comes from a context with
\* another fingerprint is rejected by the gate and by refresh, and what
\* rejects it is the fingerprint mismatch
C20_OtherContextIsMismatch ==
  \A token \in Fingerprinted : \A ctx \in Contexts :
    generateRequestFingerprint(ctx) # token.fp =>
      /\ token.typ = "access" =>
           /\ GateNow(token).status # 200
           /\ authVerification(token, ctx, now) = "Token fingerprint mismatch"
      /\ token.typ = "refresh" =>
           /\ refreshEnhanced(users, token, FALSE, ctx, T).resp.status # 200
           /\ refreshVerification(token, ctx, now)
                = "Token fingerprint mismatch"

-----------------------------------------------------------------------------
(* Google login *)

\* C15: when Google logins run at the same time for an e-mail that had no
\* account, one user record is created, however their steps interleave
C15_OneRecordPerEmail ==
  accounts \cap {0, OtherEmail} = {} =>
    /\ Cardinality(accounts) <= 1
    /\ (\E l \in Logins : oauth[l].pc = "done") => Cardinality(accounts) = 1

-----------------------------------------------------------------------------
(* The interceptor and the codes of a 401 *)

\* C21: a 401 whose code is INVALID_TOKEN_TYPE or TOKEN_INVALIDATED is a
\* plain failure for the client, which attempts no refresh for it; only a
\* 401 for an expired token leads to a refresh attempt
C21_OnlyExpiryIsRefreshed ==
  \A r \in Reqs : \A code \in Codes401 :
    (req[r].st = "sent"
       /\ attemptsRefresh([status |-> 401, code |-> code], req[r]))
      => code = "TOKEN_EXPIRED"

-----------------------------------------------------------------------------
(* Login errors *)

\* what the caller sees of a response: the status and the body
Seen(r) == [status |-> r.status, body |-> r.code, tokens |-> r.tokens]

\* the store without any account
NoAccounts == [u \in Users |-> NoUser]

\* C22: POST /login answers a wrong password for an existing account with
\* the very response it gives when no account has the e-mail
C22_LoginHidesAccounts ==
  \A u \in Users : \A remember \in BOOLEAN :
    users[u].exists =>
      Seen(login(users, u, FALSE, remember, T).resp)
        = Seen(login(NoAccounts, u, FALSE, remember, T).resp)

-----------------------------------------------------------------------------
(* Refreshes at the same time *)

\* a and b presented the same token, both read the document before any
\* save, both were answered with a pair, and a saved first
RacedInOrder(a, b) ==
  /\ racing[a].pc = "done" /\ racing[b].pc = "done"
  /\ racing[a].token = racing[b].token
  /\ racing[a].readAt = 0 /\ racing[b].readAt = 0
  /\ racing[a].seq = 1 /\ racing[b].seq = 2

\* C23: of two refreshes of the same stored token that both read before
\* either writes, the later write stays stored, and the caller that wrote
\* first gets a mismatch when it presents its new refresh token
C23_LastWriteWins ==
  \A a \in Racers, b \in Racers :
    RacedInOrder(a, b) =>
      /\ users[1].refreshToken = racing[b].got.tokens.refreshToken
      /\ LiveRefresh(racing[a].got.tokens.refreshToken) =>
           \A remember \in BOOLEAN, via \in Vias :
             IsMismatch(RefreshNow(racing[a].got.tokens.refreshToken,
                                   remember, via))

-----------------------------------------------------------------------------
(* Issuer and audience *)

\* the payloads handed out, with and without the issuer and audience claims
Unstamped == {[token EXCEPT !.iss = FALSE] : token \in Tokens}

\* C24: every minted token carries the configured issuer and audience, and
\* every verifier rejects a token on which they are absent
C24_IssuerAudienceChecked ==
  /\ \A token \in Tokens : token.iss
  /\ \A token \in Unstamped : \A isRefresh \in BOOLEAN :
       /\ verifyToken(token, isRefresh, now) # "ok"
       /\ \A ctx \in Contexts :
            verifyTokenWithFingerprint(token, generateRequestFingerprint(ctx),
                                       isRefresh, now) # "ok"

-----------------------------------------------------------------------------
(* Google login: the provider's e-mail flag *)

\* the call failed and left the store and the caller as they were
FailedCleanly(o) ==
  /\ o.resp.status # 200
  /\ o.resp.tokens = NoPair
  /\ o.users = users

\* C25: a Google login whose id token does not mark the e-mail as verified
\* fails, creates or updates no user record and issues no tokens
C25_UnverifiedEmailRefused ==
  \A u \in Users : \A remember \in BOOLEAN :
    /\ FailedCleanly(googleLogin(users, u, FALSE, remember, T))
    /\ FailedCleanly(googleRouteFor(users, u, FALSE, remember, T))

\* the store before login l ran, when it ran alone
Before(l) == IF oauth[l].created THEN accounts \ {l} ELSE accounts

RanAlone(l) ==
  /\ oauth[l].pc = "done"
  /\ \A m \in Logins \ {l} : oauth[m].pc = "idle"

\* C26: a Google login takes the account with the provider's e-mail if
\* there is one, else the account with the provider's subject id, and
\* creates one only if there is neither; isNewUser says whether it created
C26_EmailThenSubjectThenCreate ==
  \A l \in Logins :
    RanAlone(l) =>
      /\ oauth[l].user =
           (IF findOneByEmail(Before(l)) # NoDoc
              THEN findOneByEmail(Before(l))
            ELSE IF findOneByGoogleId(Before(l)) # NoDoc
              THEN findOneByGoogleId(Before(l))
            ELSE l)
      /\ oauth[l].created <=> (l \in accounts)
      /\ oauth[l].created <=> (Before(l) = {})

-----------------------------------------------------------------------------
(* Revoking *)

\* the millisecond before t
\* what logout passes to addToBlacklist: the access token of the request
Revocable == {Malformed} \cup {p.accessToken : p \in issued}

PrevMs(t) == IF t[2] > 0 THEN <<t[1], t[2] - 1>> ELSE <<t[1] - 1, MsPerSec - 1>>

\* the times around which the answer of a lookup in bl changes
Probes(bl) == UNION {{e.at, PrevMs(e.at)} : e \in bl}

\* the second revocation comes at once or half a second after the first
Delays == {0, MsPerSec \div 2}

\* C27: revoking a token a second time changes no later answer of the
\* lookup for it
C27_RevokeIdempotent ==
  \A token \in Revocable : \A d \in Delays :
    LET once == addToBlacklist(blacklist, TRUE, token, T)
        twice == addToBlacklist(once, TRUE, token, AddMs(T, d)) IN
    \A t \in Probes(once \cup twice) :
      TimeGE(t, AddMs(T, d)) =>
        (isTokenBlacklisted(once, TRUE, FALSE, token, t)
           <=> isTokenBlacklisted(twice, TRUE, FALSE, token, t))

\* what revoking token now puts into an empty store
Stored(token) == addToBlacklist({}, TRUE, token, T)

\* C28: the entry of a revoked token lasts until the token expires and no
\* longer, nothing is stored for a token that has expired, and the default
\* window is used only for a token whose exp cannot be read
C28_EntryEndsWithToken ==
  \A token \in Revocable :
    IF token.typ = "malformed"
      THEN Stored(token) = {[tok |-> token, at |-> AddMs(T, DefaultBlacklistMs)]}
    ELSE IF now >= token.exp THEN Stored(token) = {}
    ELSE Stored(token) = {[tok |-> token, at |-> <<token.exp, 0>>]}

-----------------------------------------------------------------------------
(* The request fingerprint *)

\* requests with any of the three components missing
Requests ==
  [ip : {"", "10.0.0.1"}, ua : {"", "agentA", "en"}, lang : {"", "en"}]

Components(ctx) == <<ctx.ip, ctx.ua, ctx.lang>>

\* how many of the three components the request has
Given(ctx) == Cardinality({i \in 1..3 : Components(ctx)[i] # ""})

\* C29: requests with the same address, user-agent and accept-language have
\* the same fingerprint, and the fingerprint is made of the components the
\* request has and of nothing else: a missing one leaves no trace, so two
\* requests with the same components after dropping the missing ones agree
C29_FingerprintOfGivenComponents ==
  /\ \A c1 \in Requests : \A c2 \in Requests :
       Components(c1) = Components(c2) =>
         generateRequestFingerprint(c1) = generateRequestFingerprint(c2)
  /\ \A c \in Requests :
       LET f == generateRequestFingerprint(c) IN
       /\ Len(f) = Given(c)
       /\ \A i \in 1..Len(f) : f[i] \in {c.ip, c.ua, c.lang} \ {""}
  /\ \A token \in Tokens : token.fp # NoFp =>
       \E c \in Contexts :
         /\ token.fp = generateRequestFingerprint(c)
         /\ Len(token.fp) = Given(c)

\* a token was minted for a request without accept-language: its
\* fingerprint has the two other components only, the same as that of a
\* request that sends "en" as its user-agent and nothing else would have
C29_Witness ==
  \E token \in Tokens :
    /\ token.fp = <<"10.0.0.1", "agentA">>
    /\ generateRequestFingerprint([ip |-> "10.0.0.1", ua |-> "", lang |-> "en"])
         = generateRequestFingerprint([ip |-> "10.0.0.1", ua |-> "en", lang |-> ""])

-----------------------------------------------------------------------------
(* The waiters of the refresh queue *)

\* the coordinator's state Idle: no refresh under way and nobody waiting
Idle == ~isRefreshing /\ failedQueue = <<>> /\ Queued = {}

\* C30: a caller waits in the queue only while a refresh call is in flight;
\* it leaves the queue only in the step in which that call settles, and in
\* that step every waiter is re-sent or rejected; after the step, and after
\* a refresh attempt that finds no refresh token, the coordinator is Idle;
\* and with the refresh call settling in the end every waiter is settled in
\* the end.
C30_WaitersFollowTheRefresh ==
  /\ [](Queued # {} => (isRefreshing /\ inflight = 1))
  /\ [](\A r \in Reqs : req[r].st = "queued" <=> InQueue(failedQueue, r))
  /\ [](~isRefreshing => Idle)
  /\ [][\A r \in Reqs :
          (req[r].st = "queued" /\ req'[r].st # "queued")
            => (settles' = settles + 1 /\ inflight' = inflight - 1)]_vars
  /\ [][settles' # settles
          => /\ Idle'
             /\ \A r \in Queued : req'[r].st \in {"sent", "rejected"}
             /\ \A r \in Reqs : req'[r].st # "refreshing"]_vars
  /\ [][logouts' > logouts => Idle']_vars
  /\ \A r \in Reqs : (req[r].st = "queued") ~> (req[r].st # "queued")

\* two requests got their 401 during one refresh call, so one of them
\* waited in the queue; the call has succeeded, both were sent again and
\* the coordinator is idle
C30_Witness ==
  \E r1 \in Reqs, r2 \in Reqs :
    /\ r1 # r2 /\ calls = 1 /\ settles = 1 /\ settled = "token"
    /\ req[r1].retry /\ req[r2].retry
    /\ req[r1].out = "retried" /\ req[r2].out = "retried"
    /\ Idle

\* a waiter was rejected when the refresh call ended without a token, and
\* the coordinator is idle
C30_WitnessFailure ==
  /\ notified /\ settled \in {"empty", "error"}
  /\ Idle

-----------------------------------------------------------------------------
(* Excluded paths *)

\* the four paths the interceptor leaves alone
ExcludedUrls ==
  {url \in Urls : \E w \in {"login", "logout", "refresh"} : url[Len(url)] = w}
    \cup {<<"api", "payment", "intent">>}

\* C31: a 401 for a request to /login, /logout, /refresh or /payment/intent
\* is rejected to its caller in the same step; it starts no refresh call and
\* puts nobody into the queue, so such a request never waits for a refresh
C31_ExcludedPathsPassThrough ==
  /\ [](\A url \in Urls : isExcludedPath(url) <=> url \in ExcludedUrls)
  /\ [](\A r \in Reqs : req[r].excl =>
          /\ req[r].st \notin {"queued", "refreshing"}
          /\ ~req[r].retry /\ req[r].sends <= 1
          /\ ~InQueue(failedQueue, r))
  /\ [][\A r \in Reqs :
          (req[r].excl /\ Respond401(r))
            => /\ req'[r].st = "rejected"
               /\ UNCHANGED <<isRefreshing, failedQueue, inflight, calls,
                              logouts, stored>>]_vars

\* a request to an excluded path was rejected on its 401 while the refresh
\* call started by another request was in flight with a waiter in the queue
C31_Witness ==
  \E r \in Reqs :
    /\ req[r].excl /\ req[r].st = "rejected" /\ ~req[r].retry
    /\ isRefreshing /\ inflight = 1 /\ calls = 1 /\ Len(failedQueue) = 1

-----------------------------------------------------------------------------
(* The order of the queue *)

\* C32: a caller that starts to wait is put at the end of the queue, and
\* the step in which the refresh call settles resumes the waiters in the
\* order of the queue, first in first out, and leaves the queue empty
C32_FirstInFirstOut ==
  /\ [][\A r \in Reqs :
          (req[r].st # "queued" /\ req'[r].st = "queued")
            => failedQueue' = Append(failedQueue, r)]_vars
  /\ [][settles' # settles
          => /\ failedQueue' = <<>>
             /\ \A k \in 1..Len(failedQueue) :
                  /\ req'[failedQueue[k]].turn = k
                  /\ req'[failedQueue[k]].st \in {"sent", "rejected"}
             /\ \A r \in Reqs : ~InQueue(failedQueue, r) =>
                  req'[r].turn = req[r].turn]_vars
  /\ [][failedQueue' # failedQueue
          => (failedQueue' = <<>> \/ \E r \in Reqs :
                                       failedQueue' = Append(failedQueue, r))]_vars

\* request 3 began to wait before request 2 did, and when the refresh call
\* settled it was resumed first
C32_Witness ==
  /\ req[3].turn = 1 /\ req[2].turn = 2
  /\ req[3].epoch = req[2].epoch
  /\ failedQueue = <<>> /\ settles = 1

-----------------------------------------------------------------------------
(* The in-memory blacklist *)

\* what has(token) answers now
HasNow(map, token) == MemoryBlacklistHas(map, token, memNow).ans

\* C33: has(token) is true exactly when the token was added and the time is
\* not past the expiry of its last add, whatever cleanup and earlier calls
\* of has have removed; running cleanup now changes no answer, and a step
\* of cleanup removes only entries for which has answered false already
C33_CleanupChangesNoAnswer ==
  /\ [](\A token \in MemKeys :
          HasNow(memTokens, token)
            <=> (memAdded[token] # Absent /\ memNow <= memAdded[token]))
  /\ [](\A token \in MemKeys :
          HasNow(MemoryBlacklistCleanup(memTokens, memNow), token)
            <=> HasNow(memTokens, token))
  /\ [][MemCleanup =>
          \A token \in MemKeys :
            memTokens'[token] # memTokens[token]
              => (~HasNow(memTokens, token) /\ memTokens'[token] = Absent)]_vars

\* one token has expired and still sits in the map, and one that was added
\* has been removed from it
C33_Witness ==
  \E t1 \in MemKeys, t2 \in MemKeys :
    /\ memTokens[t1] # Absent /\ memNow > memTokens[t1]
    /\ ~HasNow(memTokens, t1)
    /\ memAdded[t2] # Absent /\ memTokens[t2] = Absent

\* a token that expires at this very millisecond is still reported
C33_WitnessLastMoment ==
  \E token \in MemKeys : memTokens[token] = memNow /\ HasNow(memTokens, token)

-----------------------------------------------------------------------------
(* Tokens right after their issuance *)

\* what each handler that mints with generateTokens or generateAccessToken
\* would leave now: its response and the store
IssuingNow ==
  UNION {
    UNION { {verifyOtp(users, u, TRUE, remember, T),
             login(users, u, TRUE, remember, T),
             googleRoute(users, u, remember, T),
             googleLogin(users, u, TRUE, remember, T)} : u \in Users }
      \cup {refresh(users, token, remember, T, via) :
              token \in Presentable, via \in Vias}
    : remember \in BOOLEAN}

\* C34: the access token of a successful login, OTP verification, Google
\* login or refresh, presented at once by a user that exists and is not
\* suspended, is not in the revocation store and passes the gate
C34_FreshTokenAccepted ==
  \A o \in IssuingNow :
    LET token == o.resp.tokens.accessToken IN
    (o.resp.status = 200 /\ o.users[token.sub].exists
       /\ ~o.users[token.sub].isSuspended)
      => /\ ~isTokenBlacklisted(blacklist, redisAvailable, FALSE, token, T)
         /\ auth(o.users, blacklist, redisAvailable, FALSE, token, T).status
              = 200

-----------------------------------------------------------------------------
(* Password resets *)

\* C35: POST /reset-password changes a password only for a token that
\* POST /forgot-password has minted; for an access token, and for any other
\* token, it answers an error and leaves the password as it was
C35_OnlyResetTokensReset ==
  \A token \in (Presentable \cup mailed) \ mailed : \A password \in Passwords :
    LET o == resetPassword(users, token, password, T) IN
    /\ o.resp.status # 200
    /\ o.users = users

-----------------------------------------------------------------------------
(* A refresh that fails *)

\* C36: a refresh that ends in an error, whichever, leaves the user store
\* (the stored refresh token and lastActive with it) as it was and returns
\* no tokens; the stored token is accepted after a failed attempt exactly
\* if it was before
C36_FailedRefreshChangesNothing ==
  \A token \in Presentable : \A remember \in BOOLEAN, via \in Vias :
    LET o == refresh(users, token, remember, T, via)
        e == refreshEnhanced(users, token, remember,
                             CHOOSE ctx \in Contexts : TRUE, T) IN
    /\ o.resp.status # 200 =>
         /\ o.users = users /\ o.resp.tokens = NoPair
         /\ \A u \in Users : \A r \in BOOLEAN, v \in Vias :
              refresh(o.users, users[u].refreshToken, r, T, v).resp
                = RefreshNow(users[u].refreshToken, r, v)
    /\ e.resp.status # 200 =>
         (e.users = users /\ e.resp.tokens = NoPair /\ e.cookies = NoCookies)

\* a refresh has rotated the stored token; the token it replaced is still
\* good by itself, is refused as a mismatch, and the stored one is accepted
C36_Witness ==
  \E token \in Tokens :
    /\ LiveRefresh(token) /\ token # users[token.sub].refreshToken
    /\ users[token.sub].lastActive # NoTime
    /\ ~users[token.sub].isSuspended
    /\ IsMismatch(RefreshNow(token, TRUE, "route"))
    /\ RefreshNow(users[token.sub].refreshToken, TRUE, "helper").status = 200

-----------------------------------------------------------------------------
(* The queue of an idle coordinator *)

\* C37: between two tasks of the event loop the queue is empty whenever
\* isRefreshing is false, and a step puts a caller into the queue only if
\* isRefreshing is true before it and after it
C37_IdleQueueIsEmpty ==
  /\ [](~isRefreshing => (failedQueue = <<>> /\ inflight = 0))
  /\ [][Len(failedQueue') > Len(failedQueue)
          => (isRefreshing /\ isRefreshing' /\ inflight = 1)]_vars

\* the coordinator is idle again after a refresh call during which a
\* caller waited in the queue, and the queue is empty
C37_Witness ==
  /\ ~isRefreshing /\ failedQueue = <<>>
  /\ settles = 1
  /\ \E r \in Reqs : req[r].turn = 1

-----------------------------------------------------------------------------
(* The storage of the client *)

\* neither storage holds a token, no default Authorization header
Clean(b) ==
  /\ b.local.token = "" /\ b.local.refresh = ""
  /\ b.session.token = "" /\ b.session.refresh = ""
  /\ b.header = ""

\* C38: when logout() ends, whether its call to the server succeeded or
\* failed, no access or refresh token is in either storage, there is no
\* default Authorization header and isAuthenticated is false
C38_LogoutLeavesNothing ==
  /\ [][\A serverOk \in BOOLEAN :
          LogoutEnd(serverOk)
            => Clean(Browser(localStorage', sessionStorage', authHeader'))
               /\ ~isAuthenticated']_vars
  /\ [](\A serverOk \in BOOLEAN :
          Clean(logoutEnd(BrowserNow, serverOk)))

\* a logout whose call to the server failed has ended with tokens stored,
\* and nothing is left of them
C38_Witness ==
  /\ logoutPc = [pc |-> "ended", serverOk |-> FALSE, cleared |-> TRUE]
  /\ Clean(BrowserNow) /\ ~isAuthenticated

\* C39: getStoredTokens returns the access token, the refresh token and the
\* remember flag of the last setAuthTokens, and no tokens after
\* clearAllTokens; neither token is in both storages at once
C39_StorageRoundTrip ==
  /\ lastCall.op = "set" =>
       getStoredTokens(BrowserNow)
         = [accessToken |-> lastCall.accessToken,
            refreshToken |-> lastCall.refreshToken,
            remember |-> lastCall.remember]
  /\ lastCall.op # "set" =>
       getStoredTokens(BrowserNow)
         = [accessToken |-> "", refreshToken |-> "", remember |-> FALSE]
  /\ ~(localStorage.token # "" /\ sessionStorage.token # "")
  /\ ~(localStorage.refresh # "" /\ sessionStorage.refresh # "")

\* after a logout, tokens stored with remember are read back from
\* localStorage, and sessionStorage holds nothing
C39_Witness ==
  /\ lastCall = [op |-> "set", accessToken |-> "t2", refreshToken |-> "t1",
                 remember |-> TRUE]
  /\ getStoredTokens(BrowserNow).accessToken = "t2"
  /\ localStorage.remember = "true"
  /\ sessionStorage = NoItems
  /\ logoutPc.pc = "ended"

-----------------------------------------------------------------------------
(* The profile of a refreshed pair *)

\* C40: the pair that a successful refresh returns has the lifetimes of the
\* remember flag that came with the refresh request (15 minutes and 7 days
\* without it, 7 days and 30 days with it), whatever the lifetime of the
\* refresh token that was presented; so does the pair behind the cookies of
\* the refresh route of auth-enhanced.js
C40_RefreshFollowsRequestFlag ==
  \A token \in Presentable : \A remember \in BOOLEAN, via \in Vias :
    LET o == refresh(users, token, remember, T, via)
        e == refreshEnhanced(users, token, remember,
                             CHOOSE ctx \in Contexts : TRUE, T) IN
    /\ o.resp.status = 200 =>
         /\ FollowsProfile(o.resp.tokens, remember)
         /\ o.users[token.sub].refreshToken = o.resp.tokens.refreshToken
    /\ e.resp.status = 200 => FollowsProfile(e.resp.tokens, remember)

\* the stored refresh token of a session was minted without remember, and a
\* refresh with remember = true now answers with the long-lived pair
C40_Witness ==
  \E token \in Tokens :
    /\ token = users[token.sub].refreshToken
    /\ Lifetime(token) = RefreshShort
    /\ RefreshNow(token, TRUE, "route").status = 200
    /\ Lifetime(RefreshNow(token, TRUE, "route").tokens.refreshToken)
         = RefreshLong
    /\ Lifetime(RefreshNow(token, TRUE, "helper").tokens.accessToken)
         = AccessLong

\* the other way round: a session whose stored refresh token was minted with
\* remember is refreshed without it and gets the short-lived pair
C40_WitnessShortened ==
  \E token \in Tokens :
    /\ token = users[token.sub].refreshToken
    /\ Lifetime(token) = RefreshLong
    /\ RefreshNow(token, FALSE, "route").status = 200
    /\ Lifetime(RefreshNow(token, FALSE, "route").tokens.refreshToken)
         = RefreshShort

=============================================================================
